---- MODULE Spec2Model ----
(***************************************************************************)
(* Verification model of the Dow 30 earnings-report pipeline.              *)
(*                                                                         *)
(*   Spec      the company orchestrator (src/src/orchestrator.py) with the *)
(*             run metadata recorder (src/src/simple_metadata_collector.py)*)
(*             and the steps of extract_reports that touch the lock file   *)
(*   SpecGate  the rate-limit gate of extract_reports with a clock         *)
(*   SpecCrawl one crawl session of EnhancedSeleniumScraper (SpecCrawlFair *)
(*             with the loop taking its steps)                             *)
(*   SpecClassify  classify_link on one href                               *)
(*   SpecPeriod    the period functions of the scraper on a set of links   *)
(*   SpecSink      the metadata directory under successive completions     *)
(*                                                                         *)
(* Every specification leaves the variables of the other ones unchanged.   *)
(***************************************************************************)
EXTENDS Integers, Sequences, FiniteSets, TLC

(***************************************************************************)
(* Bounds of the model.                                                    *)
(***************************************************************************)
\* Largest roster main() is run on.
NumCompanies == 3
\* orchestrator.py:52 sets MAX_WORKERS = 10.  The model scales the cap down
\* so that it binds with NumCompanies companies (the cap only matters when
\* the roster is longer than it).
MAX_WORKERS == 2

Companies == 1..NumCompanies

Min(a, b) == IF a <= b THEN a ELSE b
Max(a, b) == IF a >= b THEN a ELSE b

VARIABLES
    \* ---- Spec: orchestrator ----
    roster,             \* companies loaded by load_companies / COMPANIES filter
    api_key,            \* whether GEMINI_API_KEY is set in the environment
    mainPc,             \* position of main(): "start", "collect", "done", "crashed"
    completed,          \* main's list `completed`
    failed,             \* main's list `failed`
    task,               \* per company: the process_company call and its collector
    ir_links,           \* per company: ir_links/financial_links_<c>.txt
    extracted_reports,  \* per company: extracted_reports/extracted_reports_<c>.txt
    metadata_files,     \* per company: the files metadata_<c>_<ts>.json, in write order
    api_call_lock,      \* the shared file .api_call_lock
    \* ---- SpecGate: the rate-limit gate of extract_reports ----
    now,                \* the wall clock, in seconds
    lock_file,          \* .api_call_lock: absent, empty (truncated) or a timestamp
    caller,             \* per calling task: position in extract_reports
    api_calls,          \* times at which the collaborator was called, in order
    \* ---- SpecCrawl: one crawl session of EnhancedSeleniumScraper ----
    base_url,           \* argument of crawl_company_ir_site
    max_depth,          \* argument of crawl_company_ir_site (default 2)
    visited_urls,       \* self.visited_urls
    document_links,     \* self.document_links
    urls_to_visit,      \* the local queue of (url, depth) pairs
    crawlPc,            \* "loop" while the while loop runs, then "returned"
    anchors_seen,       \* every anchor extract_all_links went through
    soup,               \* the anchors of the page rendered last, in page order
    attempt,            \* get_rendered_content: failed attempts on the current page
    fetched,            \* the (url, depth) pairs given to get_rendered_content, in
                        \* order, each with whether a page came back (ok)
    enqueued,           \* every url appended to urls_to_visit after the seed
    crawl_result,       \* the list crawl_company_ir_site returns
    max_promising_links,\* self.max_promising_links, the constructor argument
    sleep_for,          \* seconds the last step slept in the backoff (0: none)
    promising_links,    \* what find_quarterly_links returned for the seed page
    \* ---- SpecClassify: one call of classify_link ----
    classify_href,      \* argument href
    classify_base,      \* argument base_url
    classify_result,    \* the returned type ("unset" before the call)
    \* ---- SpecPeriod: the period functions of the scraper ----
    current_year,       \* datetime.now().year
    all_document_links, \* the links given to find_latest_quarter and the filter
    year_quarter,       \* per link: what extract_year_quarter returned for it
    latest_period,      \* (latest_year, latest_quarter); year 0: not computed
    relevant_links,     \* the links is_latest_quarter_document keeps
    periodPc,           \* "input"; "latest" or "given"; "filtered" or
                        \* "filtered_given"; "refiltered"
    \* ---- SpecSink: the metadata directory ----
    sink_now,           \* the wall clock, in seconds
    metadata_dir,       \* the files of the metadata directory, name and content
    completions,        \* the records complete_company_processing was called
                        \* to write, in order
    \* ---- SpecTask: process_company, one call after another ----
    started,            \* number of calls of process_company made so far
    taskPc,             \* position of the current call in process_company
    current_metadata,   \* metadata_collector.current_metadata
    exc_message,        \* str(e) of the exception the except clause caught
    ir_file,            \* the company's link file: absent, stale or fresh
    report_file,        \* the company's report file: absent, stale or fresh
    download_results,   \* what download_file returned for each of urls_data
    driver,             \* scraper.driver: "none" (None) or "session"
    sessions,           \* the browser sessions started in this process, each
                        \* "open" or "quit"
    records             \* the records written to the metadata directory

orchVars == <<roster, api_key, mainPc, completed, failed, task, ir_links,
              extracted_reports, metadata_files, api_call_lock>>

gateVars == <<now, lock_file, caller, api_calls>>

crawlVars == <<base_url, max_depth, visited_urls, document_links, urls_to_visit,
               crawlPc, anchors_seen, soup, attempt, fetched, enqueued,
               crawl_result,
               max_promising_links, sleep_for, promising_links>>

classifyVars == <<classify_href, classify_base, classify_result>>

periodVars == <<current_year, all_document_links, year_quarter, latest_period,
                relevant_links, periodPc>>

sinkVars == <<sink_now, metadata_dir, completions>>

taskVars == <<started, taskPc, current_metadata, exc_message, ir_file,
              report_file, download_results, driver, sessions, records>>

pureVars == <<classifyVars, periodVars, sinkVars, taskVars>>

vars == <<orchVars, gateVars, crawlVars, pureVars>>

(***************************************************************************)
(* Bounds, constants and idle state of SpecGate.                           *)
(***************************************************************************)
\* Number of tasks that call extract_reports.
NumCallers == 2
\* The clock advances in steps of TickStep seconds up to MaxTime.
TickStep == 15
MaxTime == 60
\* extract_reports.py:104-105, the gap the gate enforces.
MinGap == 30

Callers == 1..NumCallers

NoFile == [state |-> "absent", at |-> 0]

GateIdle ==
    /\ now = 0
    /\ lock_file = NoFile
    /\ caller = [k \in Callers |-> [pc |-> "idle", wake |-> 0]]
    /\ api_calls = <<>>

(***************************************************************************)
(* Idle state of SpecCrawl, SpecClassify and SpecPeriod.                   *)
(***************************************************************************)
\* datetime.now().year when the program runs.
CurrentYear == 2025

NoUrl == [form |-> "", host |-> <<>>, path |-> <<>>, ext |-> ""]

NoPeriod == [year |-> 0, quarter |-> 0]

ClassifyIdle ==
    /\ classify_href = NoUrl
    /\ classify_base = NoUrl
    /\ classify_result = "unset"

PeriodIdle ==
    /\ all_document_links = {}
    /\ year_quarter = <<>>
    /\ latest_period = NoPeriod
    /\ relevant_links = {}
    /\ periodPc = "idle"

SinkIdle ==
    /\ sink_now = 0
    /\ metadata_dir = {}
    /\ completions = <<>>

NoMetadata == [status |-> "unset", error_message |-> "none", stamps |-> {},
               downloaded_files |-> <<>>]

TaskIdle ==
    /\ started = 0
    /\ taskPc = "idle"
    /\ current_metadata = NoMetadata
    /\ exc_message = "none"
    /\ ir_file = "absent"
    /\ report_file = "absent"
    /\ download_results = <<>>
    /\ driver = "none"
    /\ sessions = <<>>
    /\ records = <<>>

PureIdle ==
    /\ ClassifyIdle
    /\ PeriodIdle
    /\ SinkIdle
    /\ TaskIdle
    /\ current_year = CurrentYear

CrawlIdle ==
    /\ base_url = NoUrl
    /\ max_depth = 0
    /\ visited_urls = {}
    /\ document_links = {}
    /\ urls_to_visit = <<>>
    /\ crawlPc = "idle"
    /\ anchors_seen = {}
    /\ soup = <<>>
    /\ attempt = 0
    /\ fetched = <<>>
    /\ enqueued = {}
    /\ crawl_result = {}
    /\ max_promising_links = 0
    /\ sleep_for = 0
    /\ promising_links = <<>>

(***************************************************************************)
(* Spec: orchestrator.py                                                   *)
(***************************************************************************)

NoTask == [pc |-> "unsubmitted", worker |-> 0, future |-> "none",
           status |-> "unset", error_message |-> "none",
           raised |-> "none", exc |-> "none", hist |-> {}, collected |-> FALSE]

\* Mutant of actual_workers: the pool is sized by the roster alone.
actual_workers_uncapped == Max(MAX_WORKERS, Cardinality(roster))

\* Mutant of actual_workers: the pool has at least one thread.
actual_workers_atleastone == Max(1, Min(MAX_WORKERS, Cardinality(roster)))

\* orchestrator.py:280
actual_workers == Min(MAX_WORKERS, Cardinality(roster))

RunningTasks == {c \in roster : task[c].future = "running"}
BusyWorkers == {task[c].worker : c \in RunningTasks}

\* The pool's threads are interchangeable: the idle thread that takes the
\* next work item is named by the lowest free number.
IdleWorker ==
    CHOOSE w \in (1..actual_workers) \ BusyWorkers :
        \A v \in (1..actual_workers) \ BusyWorkers : w <= v

Init ==
    /\ roster \in {1..n : n \in 0..NumCompanies}
    /\ api_key \in BOOLEAN
    /\ mainPc = "start"
    /\ completed = <<>>
    /\ failed = <<>>
    /\ task = [c \in Companies |-> NoTask]
    \* an earlier run of the pipeline may have left its intermediate files
    /\ \E prior \in {"absent", "stale"} :
          /\ ir_links = [c \in Companies |-> prior]
          /\ extracted_reports = [c \in Companies |-> prior]
    /\ metadata_files = [c \in Companies |-> <<>>]
    /\ api_call_lock = "absent"
    /\ GateIdle
    /\ CrawlIdle
    /\ PureIdle

\* main(), lines 263-294: ThreadPoolExecutor(max_workers=0) raises ValueError;
\* otherwise every company of the roster is submitted.
MainSubmit ==
    /\ mainPc = "start"
    /\ IF actual_workers = 0
         THEN /\ mainPc' = "crashed"
              /\ UNCHANGED task
         ELSE /\ mainPc' = "collect"
              /\ task' = [c \in Companies |->
                            IF c \in roster
                              THEN [task[c] EXCEPT !.pc = "queued", !.future = "pending"]
                              ELSE task[c]]
    /\ UNCHANGED <<roster, api_key, completed, failed, ir_links,
                   extracted_reports, metadata_files, api_call_lock>>
    /\ UNCHANGED <<gateVars, crawlVars, pureVars>>

\* Mutant of Raise: no except clause, the exception leaves process_company.
Raise_uncaught(c, op, msg) ==
    task' = [task EXCEPT ![c].pc = "escaped", ![c].raised = op, ![c].exc = msg,
                         ![c].future = "exception"]

\* The operation `op` of a stage raises: control goes to the except clause
\* of process_company (line 240) with the exception; msg stands for str(e),
\* "text" being some non-empty message.
Raise(c, op, msg) ==
    task' = [task EXCEPT ![c].pc = "handler", ![c].raised = op, ![c].exc = msg]

\* The stage an operation belongs to.
StageOf(op) ==
    CASE op = "crawl" -> "crawl"
      [] op \in {"read_links", "api_key", "lock_read", "api_call"} -> "extraction"
      [] op = "download" -> "download"
      [] OTHER -> "none"

\* A pool thread takes the next work item (the work queue is FIFO);
\* process_company lines 54-67: collector created, start_company_processing,
\* update_scraping_start.
StartTask(c) ==
    /\ mainPc = "collect"
    /\ task[c].pc = "queued"
    /\ \A d \in roster : d < c => task[d].pc # "queued"
    /\ Cardinality(RunningTasks) < actual_workers
    /\ task' = [task EXCEPT ![c].pc = "crawl", ![c].worker = IdleWorker,
                            ![c].future = "running",
                            ![c].status = "in_progress"]
    /\ UNCHANGED <<roster, api_key, mainPc, completed, failed, ir_links,
                   extracted_reports, metadata_files, api_call_lock>>
    /\ UNCHANGED <<gateVars, crawlVars, pureVars>>

\* process_company lines 69-70: the crawl returns its documents or raises.
Crawl(c) ==
    /\ task[c].pc = "crawl"
    /\ \/ task' = [task EXCEPT ![c].pc = "save",
                               ![c].hist = @ \cup {"crawl_done"}]
       \/ Raise(c, "crawl", "text")
    /\ UNCHANGED <<roster, api_key, mainPc, completed, failed, ir_links,
                   extracted_reports, metadata_files, api_call_lock>>
    /\ UNCHANGED <<gateVars, crawlVars, pureVars>>

\* process_company lines 73-88: the link file is written; a failure to write
\* it is logged and swallowed, and the file stays as it was.
SaveLinks(c) ==
    /\ task[c].pc = "save"
    /\ \/ /\ ir_links' = [ir_links EXCEPT ![c] = "fresh"]
          /\ task' = [task EXCEPT ![c].pc = "read",
                                  ![c].hist = @ \cup {"links_written"}]
       \/ /\ ir_links' = ir_links
          /\ task' = [task EXCEPT ![c].pc = "read"]
    /\ UNCHANGED <<roster, api_key, mainPc, completed, failed,
                   extracted_reports, metadata_files, api_call_lock>>
    /\ UNCHANGED <<gateVars, crawlVars, pureVars>>

\* process_company lines 94-105 and extract_reports lines 79-96: the link
\* file is read (FileNotFoundError when it is missing), extraction is marked
\* started, extract_reports reads the file and checks the API key.
ReadLinks(c) ==
    /\ task[c].pc = "read"
    /\ IF ir_links[c] = "absent"
         THEN Raise(c, "read_links", "text")
         ELSE IF ~api_key
           THEN task' = [task EXCEPT ![c].pc = "handler",
                                     ![c].raised = "api_key",
                                     ![c].exc = "text",
                                     ![c].hist = @ \cup {"extraction_started"}]
           ELSE task' = [task EXCEPT ![c].pc = "gate",
                                     ![c].hist = @ \cup {"extraction_started"}]
    /\ UNCHANGED <<roster, api_key, mainPc, completed, failed, ir_links,
                   extracted_reports, metadata_files, api_call_lock>>
    /\ UNCHANGED <<gateVars, crawlVars, pureVars>>

\* extract_reports lines 99-105: the lock file is read when it exists.  A
\* file another task has opened for writing and not yet written is empty,
\* and datetime.fromisoformat('') raises ValueError.
GateCheck(c) ==
    /\ task[c].pc = "gate"
    /\ IF api_call_lock = "empty"
         THEN Raise(c, "lock_read", "text")
         ELSE task' = [task EXCEPT ![c].pc = "lock_open"]
    /\ UNCHANGED <<roster, api_key, mainPc, completed, failed, ir_links,
                   extracted_reports, metadata_files, api_call_lock>>
    /\ UNCHANGED <<gateVars, crawlVars, pureVars>>

\* extract_reports line 107: open(lock_file, 'w') truncates the file.
GateOpen(c) ==
    /\ task[c].pc = "lock_open"
    /\ api_call_lock' = "empty"
    /\ task' = [task EXCEPT ![c].pc = "lock_write"]
    /\ UNCHANGED <<roster, api_key, mainPc, completed, failed, ir_links,
                   extracted_reports, metadata_files>>
    /\ UNCHANGED <<gateVars, crawlVars, pureVars>>

\* extract_reports line 108: the timestamp is written and the file closed.
GateWrite(c) ==
    /\ task[c].pc = "lock_write"
    /\ api_call_lock' = "stamped"
    /\ task' = [task EXCEPT ![c].pc = "api"]
    /\ UNCHANGED <<roster, api_key, mainPc, completed, failed, ir_links,
                   extracted_reports, metadata_files>>
    /\ UNCHANGED <<gateVars, crawlVars, pureVars>>

\* extract_reports lines 121-164: the collaborator is called; its reports
\* replace the company's report file, or the call raises.
ApiCall(c) ==
    /\ task[c].pc = "api"
    /\ \/ /\ extracted_reports' = [extracted_reports EXCEPT ![c] = "fresh"]
          /\ task' = [task EXCEPT ![c].pc = "download",
                                  ![c].hist = @ \cup {"extraction_done"}]
       \/ /\ Raise(c, "api_call", "text")
          /\ UNCHANGED extracted_reports
    /\ UNCHANGED <<roster, api_key, mainPc, completed, failed, ir_links,
                   metadata_files, api_call_lock>>
    /\ UNCHANGED <<gateVars, crawlVars, pureVars>>

\* process_company lines 108-232: update_extraction_complete, then the
\* download stage.  download_file and parse_report_file catch every
\* exception; without a report file the code calls update_download_failed,
\* which SimpleMetadataCollector does not define (AttributeError).
Download(c) ==
    /\ task[c].pc = "download"
    /\ IF extracted_reports[c] = "absent"
         THEN Raise(c, "download", "text")
         ELSE task' = [task EXCEPT ![c].pc = "complete",
                                   ![c].hist = @ \cup {"download_started", "download_done"}]
    /\ UNCHANGED <<roster, api_key, mainPc, completed, failed, ir_links,
                   extracted_reports, metadata_files, api_call_lock>>
    /\ UNCHANGED <<gateVars, crawlVars, pureVars>>

\* SimpleMetadataCollector.complete_company_processing, lines 115-130, up to
\* the write: status and error message are set in memory.
SetTerminal(t, success, msg) ==
    [t EXCEPT !.status = IF success THEN "completed" ELSE "failed",
              !.error_message = msg]

\* process_company lines 235-238: complete_company_processing(success=True).
\* The record is written and the task returns success, or open() raises and
\* control goes to the except clause.
Complete(c) ==
    /\ task[c].pc = "complete"
    /\ LET t == SetTerminal(task[c], TRUE, "none") IN
       \/ /\ metadata_files' = [metadata_files EXCEPT ![c] =
                 Append(@, [status |-> t.status, error_message |-> t.error_message])]
          /\ task' = [task EXCEPT ![c] = [t EXCEPT !.pc = "returned",
                                                  !.future = "success"]]
       \/ /\ UNCHANGED metadata_files
          /\ task' = [task EXCEPT ![c] = [t EXCEPT !.pc = "handler",
                                                  !.raised = "recorder",
                                                  !.exc = "text"]]
    /\ UNCHANGED <<roster, api_key, mainPc, completed, failed, ir_links,
                   extracted_reports, api_call_lock>>
    /\ UNCHANGED <<gateVars, crawlVars, pureVars>>

\* process_company lines 240-243: complete_company_processing(success=False,
\* error_message=str(e)).  The record is written and the task returns
\* failed, or open() raises and the exception leaves process_company.
Handler(c) ==
    /\ task[c].pc = "handler"
    /\ LET t == SetTerminal(task[c], FALSE, task[c].exc) IN
       \/ /\ metadata_files' = [metadata_files EXCEPT ![c] =
                 Append(@, [status |-> t.status, error_message |-> t.error_message])]
          /\ task' = [task EXCEPT ![c] = [t EXCEPT !.pc = "returned",
                                                  !.future = "failed"]]
       \/ /\ UNCHANGED metadata_files
          /\ task' = [task EXCEPT ![c] = [t EXCEPT !.pc = "escaped",
                                                  !.future = "exception"]]
    /\ UNCHANGED <<roster, api_key, mainPc, completed, failed, ir_links,
                   extracted_reports, api_call_lock>>
    /\ UNCHANGED <<gateVars, crawlVars, pureVars>>

FutureDone(c) == task[c].future \in {"success", "failed", "exception"}

\* main(), lines 297-309: as_completed yields a finished future once.
Collect(c) ==
    /\ mainPc = "collect"
    /\ c \in roster
    /\ FutureDone(c)
    /\ ~task[c].collected
    \* the future's result is handed over; the task's collector and locals
    \* are unreachable once process_company has returned
    /\ task' = [task EXCEPT ![c] = [NoTask EXCEPT !.pc = task[c].pc,
                                                  !.future = task[c].future,
                                                  !.collected = TRUE]]
    /\ IF task[c].future = "success"
         THEN /\ completed' = Append(completed, [name |-> c, status |-> "success"])
              /\ UNCHANGED failed
         ELSE /\ failed' = Append(failed, [name |-> c, status |-> "failed",
                                           error |-> task[c].exc])
              /\ UNCHANGED completed
    /\ UNCHANGED <<roster, api_key, mainPc, ir_links, extracted_reports,
                   metadata_files, api_call_lock>>
    /\ UNCHANGED <<gateVars, crawlVars, pureVars>>

\* main(), lines 311-334: the pool is left and the summary printed.
MainSummary ==
    /\ mainPc = "collect"
    /\ \A c \in roster : task[c].collected
    /\ mainPc' = "done"
    /\ UNCHANGED <<roster, api_key, completed, failed, task, ir_links,
                   extracted_reports, metadata_files, api_call_lock>>
    /\ UNCHANGED <<gateVars, crawlVars, pureVars>>

Next ==
    \/ MainSubmit
    \/ MainSummary
    \/ \E c \in Companies :
          \/ StartTask(c)
          \/ Crawl(c)
          \/ SaveLinks(c)
          \/ ReadLinks(c)
          \/ GateCheck(c)
          \/ GateOpen(c)
          \/ GateWrite(c)
          \/ ApiCall(c)
          \/ Download(c)
          \/ Complete(c)
          \/ Handler(c)
          \/ Collect(c)

Spec == Init /\ [][Next]_vars

(***************************************************************************)
(* Claims checked under Spec.                                              *)
(***************************************************************************)
Ended(c) == task[c].pc \in {"returned", "escaped"}
StageRaised(c) == StageOf(task[c].raised) # "none"

\* C1: every started company task has written exactly one metadata record by
\* the time it ends: status "failed" with a non-empty error message when a
\* stage raised, status "completed" otherwise.  (Stated for a task that has
\* ended and whose future main has not yet taken.)
C1_ExactlyOneRecord ==
    \A c \in roster :
        (Ended(c) /\ ~task[c].collected) =>
            /\ Len(metadata_files[c]) = 1
            /\ IF StageRaised(c)
                 THEN /\ metadata_files[c][1].status = "failed"
                      /\ metadata_files[c][1].error_message = "text"
                 ELSE metadata_files[c][1].status = "completed"

\* C2: an exception raised in a stage of one company's task aborts only that
\* company's remaining stages: the task goes to its except clause, where the
\* run is marked failed with the exception's message; the pipeline never
\* stops while a submitted task has not ended, and when main is done it has
\* collected the future of every company, each exactly once.
C2_StageIsolation ==
    /\ \A c \in roster :
          StageRaised(c) =>
             /\ task[c].pc \in {"handler", "returned", "escaped"}
             /\ Ended(c) => /\ task[c].status = "failed"
                             /\ task[c].error_message = task[c].exc
    /\ mainPc = "collect" => ENABLED Next
    /\ mainPc = "done" =>
          /\ \A c \in roster : task[c].collected /\ Ended(c)
          /\ Len(completed) + Len(failed) = Cardinality(roster)
          /\ \A c \in roster :
                Cardinality({i \in 1..Len(completed) : completed[i].name = c}) +
                Cardinality({i \in 1..Len(failed) : failed[i].name = c}) = 1

\* C2 witness: the crawl of one company raised, was caught and recorded, and
\* another company of the same run completed all its stages.
C2_Witness ==
    \E c, d \in roster :
        /\ c # d
        /\ task[c].raised = "crawl" /\ task[c].pc = "returned"
        /\ task[d].future = "success"

\* C4: company tasks share no mutable state: a task never reads a lock file
\* another task has written, and the extraction of a company never raises
\* because of where another task stands in rewriting that file.
C4_NoSharedState ==
    \A c \in roster :
        /\ task[c].pc = "gate" => api_call_lock = "absent"
        /\ task[c].raised # "lock_read"

\* C5: once the status of a run is completed or failed it never changes, for
\* as long as the run's record exists.
C5_TerminalStatusFinal ==
    [][\A c \in Companies :
          (task[c].status \in {"completed", "failed"} /\ ~task'[c].collected)
              => task'[c].status = task[c].status]_vars

\* C6: no call on the recorder raises: a company whose stages all succeeded
\* is never failed by the recorder, and no exception of the recorder leaves
\* process_company.
C6_RecorderNeverRaises ==
    \A c \in roster :
        /\ task[c].raised # "recorder"
        /\ task[c].future # "exception"

\* C7: the stages of a company are strictly sequential: extraction starts
\* only after the crawl completed and this run wrote the link file, download
\* only after extraction completed, and no stage starts after one raised.
C7_StagesSequential ==
    \A c \in roster :
        LET h == task[c].hist IN
        /\ "extraction_started" \in h => {"crawl_done", "links_written"} \subseteq h
        /\ "download_started" \in h => "extraction_done" \in h
        /\ task[c].raised = "crawl" => h = {}
        /\ StageOf(task[c].raised) = "extraction" => "download_started" \notin h

\* C8: at most min(MAX_WORKERS, number of companies) company tasks execute
\* at the same time, each on a pool thread of its own.
C8_PoolBound ==
    /\ Cardinality(RunningTasks) <= Min(MAX_WORKERS, Cardinality(roster))
    /\ \A c, d \in RunningTasks : c # d => task[c].worker # task[d].worker

\* C8 witness: the pool is full and a submitted company waits for a thread.
C8_Witness ==
    /\ Cardinality(RunningTasks) = MAX_WORKERS
    /\ \E c \in roster : task[c].pc = "queued"

\* C22: a run of the pipeline for a company replaces the company's link-list
\* file and its extracted-report file: once a run has gone through its
\* stages, each file holds what this run wrote and nothing an earlier run
\* left.
C22_RerunReplacesFiles ==
    \A c \in roster :
        task[c].future = "success" =>
            /\ ir_links[c] = "fresh"
            /\ extracted_reports[c] = "fresh"

\* main(), lines 323-331: the final summary, one line per entry of
\* `completed` and of `failed`; a line is made of the fields the print
\* statement takes from the entry.
final_summary ==
    [succeeded |-> [i \in DOMAIN completed |-> [name |-> completed[i].name]],
     failed |-> [i \in DOMAIN failed |-> [name |-> failed[i].name]]]

\* C24: when main finishes, the final summary names every company of the
\* roster exactly once, as succeeded or as failed in accordance with the
\* outcome of its task, and the line of a failed company carries its
\* first-level error message.
C24_FinalSummary ==
    mainPc = "done" =>
        LET s == final_summary IN
        /\ \A c \in roster :
              Cardinality({i \in DOMAIN s.succeeded : s.succeeded[i].name = c}) +
              Cardinality({i \in DOMAIN s.failed : s.failed[i].name = c}) = 1
        /\ \A i \in DOMAIN s.succeeded : task[s.succeeded[i].name].future = "success"
        /\ \A i \in DOMAIN s.failed : task[s.failed[i].name].future # "success"
        /\ \A i \in DOMAIN s.failed :
              /\ "error" \in DOMAIN s.failed[i]
              /\ s.failed[i].error = "text"

\* C39: main reaches its final summary only for a non-empty roster: with an
\* empty company list the run aborts when the worker pool is created, before
\* any task is submitted and without a summary; a run with companies never
\* aborts there.
C39_EmptyRosterAborts ==
    /\ mainPc = "done" => roster # {}
    /\ roster = {} =>
          /\ mainPc \in {"start", "crashed"}
          /\ \A c \in Companies : task[c] = NoTask
          /\ completed = <<>>
          /\ failed = <<>>
    /\ mainPc = "crashed" => roster = {}

\* C39 witness: the run of an empty roster has aborted.
C39_Witness ==
    /\ roster = {}
    /\ mainPc = "crashed"

(***************************************************************************)
(* SpecGate: extract_reports.py lines 98-137, the rate-limit gate, run by  *)
(* NumCallers concurrent company tasks against a clock.                    *)
(***************************************************************************)
OrchIdle ==
    /\ roster = {}
    /\ api_key = TRUE
    /\ mainPc = "start"
    /\ completed = <<>>
    /\ failed = <<>>
    /\ task = [c \in Companies |-> NoTask]
    /\ ir_links = [c \in Companies |-> "absent"]
    /\ extracted_reports = [c \in Companies |-> "absent"]
    /\ metadata_files = [c \in Companies |-> <<>>]
    /\ api_call_lock = "absent"

\* A lock file of an earlier run may exist; it holds that run's timestamp.
GateInit ==
    /\ OrchIdle
    /\ now = 0
    /\ lock_file \in {NoFile, [state |-> "stamped", at |-> 0]}
    /\ caller = [k \in Callers |-> [pc |-> "idle", wake |-> 0]]
    /\ api_calls = <<>>
    /\ CrawlIdle
    /\ PureIdle

\* Time passes.
Tick ==
    /\ now + TickStep <= MaxTime
    /\ now' = now + TickStep
    /\ UNCHANGED <<lock_file, caller, api_calls>>
    /\ UNCHANGED <<orchVars, crawlVars, pureVars>>

\* A task reaches the gate (its crawl has taken any amount of time).
GateArrive(k) ==
    /\ caller[k].pc = "idle"
    /\ caller' = [caller EXCEPT ![k].pc = "check"]
    /\ UNCHANGED <<now, lock_file, api_calls>>
    /\ UNCHANGED <<orchVars, crawlVars, pureVars>>

\* Lines 100-105: without a lock file the task goes on; otherwise it reads
\* the last call time (ValueError on an empty file) and, when the gap is
\* below MinGap, sleeps for the rest of it.
GateRead(k) ==
    /\ caller[k].pc = "check"
    /\ caller' = [caller EXCEPT ![k] =
          CASE lock_file.state = "absent" -> [pc |-> "open", wake |-> 0]
            [] lock_file.state = "empty" -> [pc |-> "raised", wake |-> 0]
            [] OTHER ->
                 IF now - lock_file.at < MinGap
                   THEN [pc |-> "sleep", wake |-> now + (MinGap - (now - lock_file.at))]
                   ELSE [pc |-> "open", wake |-> 0]]
    /\ UNCHANGED <<now, lock_file, api_calls>>
    /\ UNCHANGED <<orchVars, crawlVars, pureVars>>

\* Line 105: time.sleep returns once the requested time has passed.
GateWake(k) ==
    /\ caller[k].pc = "sleep"
    /\ now >= caller[k].wake
    /\ caller' = [caller EXCEPT ![k] = [pc |-> "open", wake |-> 0]]
    /\ UNCHANGED <<now, lock_file, api_calls>>
    /\ UNCHANGED <<orchVars, crawlVars, pureVars>>

\* Line 107: open(lock_file, 'w') truncates the file.
GateTruncate(k) ==
    /\ caller[k].pc = "open"
    /\ lock_file' = [state |-> "empty", at |-> 0]
    /\ caller' = [caller EXCEPT ![k].pc = "write"]
    /\ UNCHANGED <<now, api_calls>>
    /\ UNCHANGED <<orchVars, crawlVars, pureVars>>

\* Line 108: the current time is written and the file closed.
GateStamp(k) ==
    /\ caller[k].pc = "write"
    /\ lock_file' = [state |-> "stamped", at |-> now]
    /\ caller' = [caller EXCEPT ![k].pc = "call"]
    /\ UNCHANGED <<now, api_calls>>
    /\ UNCHANGED <<orchVars, crawlVars, pureVars>>

\* Lines 121-137: the collaborator is called.
GateCall(k) ==
    /\ caller[k].pc = "call"
    /\ api_calls' = Append(api_calls, now)
    /\ caller' = [caller EXCEPT ![k].pc = "done"]
    /\ UNCHANGED <<now, lock_file>>
    /\ UNCHANGED <<orchVars, crawlVars, pureVars>>

GateNext ==
    \/ Tick
    \/ \E k \in Callers :
          \/ GateArrive(k)
          \/ GateRead(k)
          \/ GateWake(k)
          \/ GateTruncate(k)
          \/ GateStamp(k)
          \/ GateCall(k)

SpecGate == GateInit /\ [][GateNext]_vars

\* C3: any two successive calls to the report-extraction collaborator are at
\* least MinGap seconds apart, whatever the interleaving of the tasks.
C3_MinimumGap ==
    \A i \in 1..(Len(api_calls) - 1) : api_calls[i + 1] - api_calls[i] >= MinGap

(***************************************************************************)
(* SpecCrawl: enhanced_selenium_scraper.py, one crawl session.             *)
(*                                                                         *)
(* A URL is a record of its host labels, its path segments and the         *)
(* extension of its last segment; texts and titles are sequences of words. *)
(* Substring tests of the code (keyword in url, excluded domain in netloc) *)
(* are made on these tokens: Substrings lists, for the tokens the model    *)
(* uses, which keyword occurs inside which token.                          *)
(***************************************************************************)
\* Largest number of anchors on a rendered page.
MaxAnchors == 2
\* Largest depth ceiling a crawl is started with (the default is 2).
MaxDepth == 2
\* Largest constructor argument max_promising_links (default 5, line 136)
\* a scraper is built with.
MaxPromising == 2
\* An href is a record: its form ("http": it starts with http:// or https://;
\* "root": /path; "netpath": //host/path; "rel": a path with no leading
\* slash; "scheme": another scheme with a host, as ftp://host/path; "": the
\* empty string), its host labels, its path segments and the extension it
\* ends with.
Href(f, h, p, e) == [form |-> f, host |-> h, path |-> p, ext |-> e]

Url(h, p, e) == Href("http", h, p, e)

IRHost == <<"ir", "acme", "com">>
VendorHost == <<"events", "q4inc", "com">>
PressHost == <<"news", "other", "com">>

Seed == Url(IRHost, <<>>, "")
NavQuarterly == Url(IRHost, <<"quarterly-report", "2026">>, "")
NavAbout == Url(IRHost, <<"about">>, "")
DocOld == Url(IRHost, <<"2025", "q1">>, "pdf")
DocNew == Url(IRHost, <<"2026", "q1">>, "pdf")
VendorHome == Url(VendorHost, <<>>, "")
VendorNav == Url(VendorHost, <<"quarterly-report", "q4">>, "")
VendorDoc == Url(VendorHost, <<"q4">>, "pdf")
PressNav == Url(PressHost, <<"quarterly-report">>, "")
RootAbout == Href("root", <<>>, <<"about">>, "")

Anchor(u, txt) == [href |-> u, text |-> txt, title |-> <<>>]

\* The anchors a rendered page is made of.  The title stands for the title
\* the link ends up with (create_document_link may replace a document's
\* title by the file name the server announces).
Anchors ==
    {Anchor(u, <<>>) : u \in {NavQuarterly, RootAbout, DocOld, DocNew,
                              VendorNav, VendorDoc, PressNav}}
    \cup {Anchor(NavAbout, <<"q4", "10-k">>)}

Pages == UNION {[1..n -> Anchors] : n \in 0..MaxAnchors}

\* The base URLs a crawl is started on.
SeedUrls == {Seed, VendorHome}

\* str.lower() on the tokens of the model.
Lower(t) ==
    CASE t = "PDF" -> "pdf"
      [] t = "Download" -> "download"
      [] t = "FY25" -> "fy25"
      [] t = "Q2" -> "q2"
      [] OTHER -> t

ToSet(seq) == {seq[i] : i \in DOMAIN seq}
SetMax(S) == CHOOSE x \in S : \A y \in S : y <= x

UrlTokens(u) == ToSet(u.host) \cup ToSet(u.path) \cup (IF u.ext = "" THEN {} ELSE {u.ext})

\* Lines 146-155.
exclusion_domains ==
    {<<"q4inc", "com">>, <<"investorcalendar", "com">>, <<"webcast", "com">>,
     <<"eventbrite", "com">>, <<"zoom", "us">>, <<"teams", "microsoft", "com">>,
     <<"webex", "com">>, <<"gotomeeting", "com">>}

IsInfix(s, t) ==
    \E i \in 0..(Len(t) - Len(s)) : SubSeq(t, i + 1, i + Len(s)) = s

\* Lines 519-535: `excluded_domain in domain`.
is_url_excluded(url) ==
    \/ url = NoUrl
    \/ \E d \in exclusion_domains : IsInfix(d, url.host)

\* Lines 463-471.
is_internal_link(url, base) == url.host = base.host

\* Lines 481-482 and 488.
document_extensions ==
    {"pdf", "doc", "docx", "xls", "xlsx", "ppt", "pptx", "zip", "rar", "csv",
     "txt", "rtf", "xml", "json"}
document_keywords == {"file", "download", "document", "attachment"}

\* Lines 577-580.
quarterly_keywords ==
    {"quarterly-result", "quarterly-report", "income-statement",
     "quarterly-earning", "financial-information", "financial-report",
     "q1", "q2", "q3", "q4", "1q", "2q", "3q", "4q", "10-q", "10-k",
     "financial-statements"}

\* <<k, t>>: keyword k occurs in token t (for the tokens of the model).
Substrings ==
    {<<k, k>> : k \in quarterly_keywords \cup document_keywords}
    \cup {<<"q4", "q4inc">>, <<"file", "profile">>}

KeywordsIn(keywords, tokens) ==
    {k \in keywords : \E t \in tokens : <<k, t>> \in Substrings}

\* Mutant of classify_link: the domain is looked at before the extension.
classify_link_domainfirst(href, base) ==
    IF href = NoUrl THEN "invalid"
    ELSE IF href.form = "http" /\ base.host # href.host THEN "external"
    ELSE IF Lower(href.ext) \in document_extensions THEN "document"
    ELSE IF KeywordsIn(document_keywords, {Lower(t) : t \in UrlTokens(href)}) # {}
      THEN "document"
    ELSE "internal"

\* Lines 473-507.
classify_link(href, base) ==
    IF href = NoUrl THEN "invalid"
    ELSE IF Lower(href.ext) \in document_extensions THEN "document"
    ELSE IF KeywordsIn(document_keywords, {Lower(t) : t \in UrlTokens(href)}) # {}
      THEN "document"
    ELSE IF href.form \in {"root", "netpath"} THEN "internal"
    ELSE IF href.form = "http"
      THEN (IF base.host = href.host THEN "internal" ELSE "external")
    ELSE "internal"

\* The directory of a path: urljoin replaces the last segment of the base.
Dir(path) == IF path = <<>> THEN <<>> ELSE SubSeq(path, 1, Len(path) - 1)

\* Lines 509-517; NoUrl stands for None.
resolve_url(href, base) ==
    IF href = NoUrl THEN NoUrl
    ELSE IF href.form = "http" THEN href
    ELSE IF href.form = "root" THEN Href("http", base.host, href.path, href.ext)
    ELSE IF href.form = "rel"
      THEN Href("http", base.host, Dir(base.path) \o href.path, href.ext)
    ELSE IF href.form = "netpath" THEN Href("http", href.host, href.path, href.ext)
    ELSE href

\* DocumentLink._get_file_extension, lines 65-69: href.split('.')[-1].lower()
\* when the href has a dot, else ''.  The result is what follows the last
\* dot of the whole href, as a sequence of the segments a slash separates:
\* <<"pdf">> for .../q1.pdf, <<"com", "about">> for http://ir.acme.com/about,
\* <<>> for the empty string.
get_file_extension(href) ==
    IF href.ext # "" THEN <<Lower(href.ext)>>
    ELSE IF Len(href.host) >= 2 THEN <<href.host[Len(href.host)]>> \o href.path
    ELSE <<>>

\* The keys of doc_types, lines 76-95.
doc_types ==
    [pdf |-> "PDF Document", doc |-> "Word Document", docx |-> "Word Document",
     xls |-> "Excel Spreadsheet", xlsx |-> "Excel Spreadsheet",
     ppt |-> "PowerPoint Presentation", pptx |-> "PowerPoint Presentation",
     zip |-> "Archive", rar |-> "Archive", csv |-> "CSV Data",
     txt |-> "Text Document", rtf |-> "Rich Text", xml |-> "XML Document",
     json |-> "JSON Data", html |-> "Web Page", htm |-> "Web Page",
     wav |-> "Audio File", mp3 |-> "Audio File"]

\* DocumentLink._classify_document_type, lines 71-97; "File" stands for the
\* default f"{file_extension.upper()} File".
classify_document_type(file_extension) ==
    IF file_extension = <<>> THEN "unknown"
    ELSE IF Len(file_extension) = 1 /\ file_extension[1] \in DOMAIN doc_types
      THEN doc_types[file_extension[1]]
    ELSE "File"

\* Lines 537-568 and DocumentLink.__init__; NoUrl stands for None.
create_document_link(a, base, source) ==
    IF resolve_url(a.href, base) = NoUrl THEN NoUrl
    ELSE [href |-> resolve_url(a.href, base), text |-> a.text, title |-> a.title,
          link_type |-> classify_link(resolve_url(a.href, base), base),
          source_url |-> source,
          file_extension |-> get_file_extension(resolve_url(a.href, base)),
          document_type |->
              classify_document_type(get_file_extension(resolve_url(a.href, base)))]

\* Mutant of AddLink: links are compared by all their fields.
AddLink_byvalue(links, l) == links \cup {l}

\* Mutant of AddLink: a link whose href is already in the set takes the
\* place of the one collected before.
AddLink_replace(links, l) == {m \in links : m.href # l.href} \cup {l}

\* set.add with DocumentLink.__eq__/__hash__ (lines 123-131): a link whose
\* href is already in the set is not added.
AddLink(links, l) ==
    IF \E m \in links : m.href = l.href THEN links ELSE links \cup {l}

RECURSIVE AddAnchors(_, _, _, _)
AddAnchors(links, page, i, source) ==
    IF i > Len(page) THEN links
    ELSE AddAnchors(
           IF create_document_link(page[i], source, source) = NoUrl THEN links
           ELSE AddLink(links, create_document_link(page[i], source, source)),
           page, i + 1, source)

\* Lines 634-644.
extract_all_links(links, page, source) == AddAnchors(links, page, 1, source)

\* Lines 604-608: one point per keyword and field (the anchor's own HTML,
\* its text, its title, the resolved URL).
Score(a, full_url) ==
    Cardinality(KeywordsIn(quarterly_keywords,
                           UrlTokens(a.href) \cup ToSet(a.text) \cup ToSet(a.title)))
    + Cardinality(KeywordsIn(quarterly_keywords, ToSet(a.text)))
    + Cardinality(KeywordsIn(quarterly_keywords, ToSet(a.title)))
    + Cardinality(KeywordsIn(quarterly_keywords, UrlTokens(full_url)))

\* Mutant of IsCandidate: the exclusion list is not consulted.
IsCandidate_unfiltered(a, base, visited) ==
    /\ classify_link(a.href, base) \notin {"invalid", "document"}
    /\ resolve_url(a.href, base) \notin visited
    /\ Score(a, resolve_url(a.href, base)) > 0

\* Lines 590-617: whether an anchor becomes a promising link.
IsCandidate(a, base, visited) ==
    /\ classify_link(a.href, base) \notin {"invalid", "document"}
    /\ resolve_url(a.href, base) \notin visited \cup {NoUrl}
    /\ ~is_url_excluded(resolve_url(a.href, base))
    /\ Score(a, resolve_url(a.href, base)) > 0

RECURSIVE Candidates(_, _, _, _)
Candidates(page, i, base, visited) ==
    IF i > Len(page) THEN <<>>
    ELSE (IF IsCandidate(page[i], base, visited)
            THEN <<[url |-> resolve_url(page[i].href, base),
                    score |-> Score(page[i], resolve_url(page[i].href, base))]>>
            ELSE <<>>)
         \o Candidates(page, i + 1, base, visited)

\* list.sort(key=score, reverse=True) is stable.
InsertDesc(sorted, x) ==
    LET n == Cardinality({i \in 1..Len(sorted) : sorted[i].score >= x.score}) IN
    SubSeq(sorted, 1, n) \o <<x>> \o SubSeq(sorted, n + 1, Len(sorted))

RECURSIVE SortDesc(_)
SortDesc(seq) ==
    IF Len(seq) <= 1 THEN seq
    ELSE InsertDesc(SortDesc(SubSeq(seq, 1, Len(seq) - 1)), seq[Len(seq)])

\* Mutant of find_quarterly_links: the candidates are cut in page order.
find_quarterly_links_unsorted(page, base, visited) ==
    LET found == Candidates(page, 1, base, visited) IN
    SubSeq(found, 1, Min(max_promising_links, Len(found)))

\* Lines 570-632.
find_quarterly_links(page, base, visited) ==
    LET sorted == SortDesc(Candidates(page, 1, base, visited)) IN
    SubSeq(sorted, 1, Min(max_promising_links, Len(sorted)))

(***************************************************************************)
(* extract_year_quarter, lines 297-369.  The regular expressions are       *)
(* applied to the words of `text title url` in lower case: WordYears,      *)
(* FyWord, WordTwoDigit and WordQuarter give, for each word of the model,  *)
(* what the patterns find in it.  A matched string is a sequence of        *)
(* digits; 0 stands for None.                                              *)
(***************************************************************************)
\* Lines 313-319: the year patterns name 2025 and 2026.
WordYears(w) ==
    CASE w \in {"2025", "fy2025"} -> {<<2, 0, 2, 5>>}
      [] w \in {"2026", "fy2026"} -> {<<2, 0, 2, 6>>}
      [] OTHER -> {}

\* The group (25|26) after fy, lines 328, 330 and 331.
FyWord(w) ==
    CASE w = "fy25" -> {<<2, 5>>}
      [] w = "fy26" -> {<<2, 6>>}
      [] OTHER -> {}

\* Lines 328-329: the words in which a one-group pattern matches.
WordTwoDigit(w) ==
    CASE w = "25fy" -> {<<2, 5>>}
      [] w = "26fy" -> {<<2, 6>>}
      [] OTHER -> FyWord(w)

\* Line 350 and the quarter groups of lines 330-331: a word q1..q4.
WordQuarter(w) ==
    CASE w = "q1" -> {<<1>>}
      [] w = "q2" -> {<<2>>}
      [] w = "q3" -> {<<3>>}
      [] w = "q4" -> {<<4>>}
      [] OTHER -> {}

\* A Python string seen as a sequence: its characters, each a string.
Chars(str) == [i \in DOMAIN str |-> <<str[i]>>]

\* int() of a string of digits.
RECURSIVE Decimal(_)
Decimal(str) ==
    IF str = <<>> THEN 0
    ELSE 10 * Decimal(SubSeq(str, 1, Len(str) - 1)) + str[Len(str)]

RECURSIVE Flatten(_)
Flatten(strs) == IF strs = <<>> THEN <<>> ELSE Head(strs) \o Flatten(Tail(strs))

\* Lines 334-335: what re.findall returns for the two-digit patterns.  A
\* one-group pattern gives the matched string, a two-group pattern a pair
\* of strings (year then quarter for line 330, quarter then year for line
\* 331, on two words that follow each other); `match` is indexed and
\* measured the same way in both cases.
TwoDigitMatches(words, tokens) ==
    {Chars(d) : d \in UNION {WordTwoDigit(t) : t \in tokens}}
    \cup UNION {{<<d, q>> : d \in FyWord(words[i]), q \in WordQuarter(words[i + 1])}
                : i \in 1..(Len(words) - 1)}
    \cup UNION {{<<q, d>> : q \in WordQuarter(words[i]), d \in FyWord(words[i + 1])}
                : i \in 1..(Len(words) - 1)}

QuarterStrings == {<<1>>, <<2>>, <<3>>, <<4>>}

\* Lines 338-347: the year strings appended for one match.
MatchYears(match) ==
    IF Len(match) = 2
      THEN (IF match[1] \in QuarterStrings THEN {<<2, 0>> \o match[2]}
            ELSE IF match[2] \in QuarterStrings THEN {<<2, 0>> \o match[1]}
            ELSE {})
      ELSE {<<2, 0>> \o Flatten(match)}

\* Lines 338-345: the quarters appended for one match.
MatchQuarters(match) ==
    IF Len(match) = 2
      THEN (IF match[1] \in QuarterStrings THEN {Decimal(match[1])}
            ELSE IF match[2] \in QuarterStrings THEN {Decimal(match[2])}
            ELSE {})
      ELSE {}

\* The words of f"{text} {title}" and the tokens of the whole combined
\* text, in lower case (line 307).
CombinedWords(text, title) == [i \in 1..(Len(text) + Len(title)) |-> Lower((text \o title)[i])]

CombinedTokens(text, url, title) ==
    {Lower(t) : t \in ToSet(text) \cup ToSet(title) \cup UrlTokens(url)}

\* Lines 309-347: the integers of years_found.
years_found(text, url, title) ==
    {Decimal(y) :
       y \in UNION {WordYears(t) : t \in CombinedTokens(text, url, title)}
             \cup UNION {MatchYears(m) :
                           m \in TwoDigitMatches(CombinedWords(text, title),
                                                 CombinedTokens(text, url, title))}}

\* Lines 310-351.
quarters_found(text, url, title) ==
    UNION {MatchQuarters(m) :
             m \in TwoDigitMatches(CombinedWords(text, title),
                                   CombinedTokens(text, url, title))}
    \cup {Decimal(q) : q \in UNION {WordQuarter(t) : t \in CombinedTokens(text, url, title)}}

\* Mutant of extract_year_quarter: the years found are not filtered.
extract_year_quarter_unfiltered(text, url, title) ==
    [year |-> IF years_found(text, url, title) = {} THEN 0
              ELSE SetMax(years_found(text, url, title)),
     quarter |-> IF quarters_found(text, url, title) = {} THEN 0
                 ELSE SetMax(quarters_found(text, url, title))]

\* Lines 297-369.
extract_year_quarter(text, url, title) ==
    LET valid_years == {y \in years_found(text, url, title) : y <= current_year + 1}
        quarters == quarters_found(text, url, title)
    IN [year |-> IF valid_years = {} THEN 0 ELSE SetMax(valid_years),
        quarter |-> IF quarters = {} THEN 0 ELSE SetMax(quarters)]

\* Mutant of find_latest_quarter: a missing quarter is not counted as 4.
find_latest_quarter_nodefault(links) ==
    LET pairs == {extract_year_quarter(l.text, l.href, l.title)
                  : l \in {m \in links : extract_year_quarter(m.text, m.href, m.title).year # 0}}
    IN IF pairs = {} THEN [year |-> current_year, quarter |-> 4]
       ELSE LET ly == SetMax({p.year : p \in pairs}) IN
            [year |-> ly, quarter |-> SetMax({p.quarter : p \in {r \in pairs : r.year = ly}})]

\* Mutant of find_latest_quarter: the latest quarter is the greatest quarter
\* of any year.
find_latest_quarter_independent(links) ==
    LET pairs == {[year |-> extract_year_quarter(l.text, l.href, l.title).year,
                   quarter |-> IF extract_year_quarter(l.text, l.href, l.title).quarter = 0
                                 THEN 4
                                 ELSE extract_year_quarter(l.text, l.href, l.title).quarter]
                  : l \in {m \in links : extract_year_quarter(m.text, m.href, m.title).year # 0}}
    IN IF pairs = {} THEN [year |-> current_year, quarter |-> 4]
       ELSE [year |-> SetMax({p.year : p \in pairs}),
             quarter |-> SetMax({p.quarter : p \in pairs})]

\* Lines 398-423.
find_latest_quarter(links) ==
    LET pairs == {[year |-> extract_year_quarter(l.text, l.href, l.title).year,
                   quarter |-> IF extract_year_quarter(l.text, l.href, l.title).quarter = 0
                                 THEN 4
                                 ELSE extract_year_quarter(l.text, l.href, l.title).quarter]
                  : l \in {m \in links : extract_year_quarter(m.text, m.href, m.title).year # 0}}
    IN IF pairs = {} THEN [year |-> current_year, quarter |-> 4]
       ELSE LET ly == SetMax({p.year : p \in pairs}) IN
            [year |-> ly, quarter |-> SetMax({p.quarter : p \in {r \in pairs : r.year = ly}})]

\* Mutant of is_latest_quarter_document: a document with no year is rejected.
is_latest_quarter_document_strict(l, latest) ==
    LET d == extract_year_quarter(l.text, l.href, l.title) IN
    IF d.year = 0 THEN FALSE
    ELSE IF d.year < latest.year THEN FALSE
    ELSE IF d.year > latest.year THEN TRUE
    ELSE IF d.quarter = 0 THEN TRUE
    ELSE d.quarter >= latest.quarter

\* Mutant of is_latest_quarter_document: the quarter is not compared.
is_latest_quarter_document_yearonly(l, latest) ==
    LET d == extract_year_quarter(l.text, l.href, l.title) IN
    IF d.year = 0 THEN TRUE
    ELSE d.year >= latest.year

\* Mutant of is_latest_quarter_document: only a later quarter is kept.
is_latest_quarter_document_later(l, latest) ==
    LET d == extract_year_quarter(l.text, l.href, l.title) IN
    IF d.year = 0 THEN TRUE
    ELSE IF d.year < latest.year THEN FALSE
    ELSE IF d.year > latest.year THEN TRUE
    ELSE IF d.quarter = 0 THEN TRUE
    ELSE d.quarter > latest.quarter

\* Lines 371-396.
is_latest_quarter_document(l, latest) ==
    LET d == extract_year_quarter(l.text, l.href, l.title) IN
    IF d.year = 0 THEN TRUE
    ELSE IF d.year < latest.year THEN FALSE
    ELSE IF d.year > latest.year THEN TRUE
    ELSE IF d.quarter = 0 THEN TRUE
    ELSE d.quarter >= latest.quarter

\* The visited set a scraper holds when a crawl starts on it: empty on a new
\* scraper (line 140); after an earlier crawl of Seed on the same scraper it
\* still holds Seed, since line 651 clears document_links only.
PriorVisited == {{}, {Seed}}

\* Lines 646-653: a crawl starts, on a new scraper (lines 140-141) or on one
\* that ran a crawl before.
CrawlInit ==
    /\ OrchIdle
    /\ GateIdle
    /\ PureIdle
    /\ base_url \in SeedUrls
    /\ max_depth \in 0..MaxDepth
    /\ max_promising_links \in 1..MaxPromising
    /\ visited_urls \in PriorVisited
    /\ document_links = {}
    /\ urls_to_visit = <<[url |-> base_url, depth |-> 0]>>
    /\ crawlPc = "loop"
    /\ anchors_seen = {}
    /\ soup = <<>>
    /\ attempt = 0
    /\ sleep_for = 0
    /\ fetched = <<>>
    /\ promising_links = <<>>
    /\ enqueued = {}
    /\ crawl_result = {}

\* Mutant of Skipped: the depth is not compared with the ceiling.
Skipped_nodepth(e) == e.url \in visited_urls

\* Line 658.
Skipped(e) == e.url \in visited_urls \/ e.depth > max_depth

\* Lines 656-659: the entry is popped and dropped.
SkipEntry ==
    /\ crawlPc = "loop"
    /\ urls_to_visit # <<>>
    /\ attempt = 0
    /\ Skipped(Head(urls_to_visit))
    /\ urls_to_visit' = Tail(urls_to_visit)
    /\ sleep_for' = 0
    /\ UNCHANGED <<base_url, max_depth, max_promising_links, visited_urls,
                   document_links, crawlPc, anchors_seen, soup, attempt, fetched,
                   promising_links, enqueued, crawl_result>>
    /\ UNCHANGED <<orchVars, gateVars, pureVars>>

\* Mutant of Fetching: a visited URL is fetched again.
Fetching_revisit ==
    /\ crawlPc = "loop"
    /\ urls_to_visit # <<>>
    /\ (attempt > 0 \/ Head(urls_to_visit).depth <= max_depth)

\* Lines 656-665: the entry at the head of the queue passed the test of
\* line 658 and is being fetched (the model keeps the entry in the queue
\* until get_rendered_content has returned; attempt > 0: the call is under
\* way and the URL was marked visited at line 662).
Fetching ==
    /\ crawlPc = "loop"
    /\ urls_to_visit # <<>>
    /\ (attempt > 0 \/ ~Skipped(Head(urls_to_visit)))

\* get_rendered_content(url, wait_time=10, max_retries=2), line 206.
max_retries == 2
\* Line 209.
backoff_seconds == 2
\* Line 246: random.uniform(0, 1.25), in whole seconds.
jitter_seconds == 1

RECURSIVE Pow2(_)
Pow2(n) == IF n = 0 THEN 1 ELSE 2 * Pow2(n - 1)

\* Mutant of Backoff: the wait does not grow with the attempts.
Backoff_flat(k) == backoff_seconds

\* Line 246 without the jitter: the wait after the k-th failed attempt.
Backoff(k) == backoff_seconds * Pow2(k - 1)

\* An entry with its fetch outcome, as logged in fetched.
Outcome(e, ok) == [url |-> e.url, depth |-> e.depth, ok |-> ok]

\* Lines 662 and 210-247: the URL is in the visited set from before the
\* first attempt; an attempt to render the page raises (a timeout or any
\* other exception), the exception is caught and, attempts remaining, the
\* page is tried again after the backoff.
FetchRetry ==
    /\ Fetching
    /\ attempt < max_retries
    /\ attempt' = attempt + 1
    /\ visited_urls' = visited_urls \cup {Head(urls_to_visit).url}
    /\ \E jitter \in 0..jitter_seconds : sleep_for' = Backoff(attempt + 1) + jitter
    /\ UNCHANGED <<base_url, max_depth, max_promising_links, document_links,
                   urls_to_visit, crawlPc, anchors_seen, soup, fetched,
                   promising_links, enqueued, crawl_result>>
    /\ UNCHANGED <<orchVars, gateVars, pureVars>>

\* Mutant of FetchFail: the failure of the last attempt leaves the crawl as
\* an exception.
FetchFail_fatal ==
    /\ Fetching
    /\ attempt = max_retries
    /\ crawlPc' = "raised"
    /\ UNCHANGED <<base_url, max_depth, max_promising_links, visited_urls,
                   document_links, urls_to_visit, anchors_seen, soup, attempt,
                   sleep_for,
                   fetched, promising_links, enqueued, crawl_result>>
    /\ UNCHANGED <<orchVars, gateVars, pureVars>>

\* Lines 656-668 and 244-250: the last attempt fails too; without another
\* wait get_rendered_content returns None and the loop goes on with the
\* next entry.
FetchFail ==
    /\ Fetching
    /\ attempt = max_retries
    /\ attempt' = 0
    /\ sleep_for' = 0
    /\ visited_urls' = visited_urls \cup {Head(urls_to_visit).url}
    /\ fetched' = Append(fetched, Outcome(Head(urls_to_visit), FALSE))
    /\ urls_to_visit' = Tail(urls_to_visit)
    /\ UNCHANGED <<base_url, max_depth, max_promising_links, document_links,
                   crawlPc, anchors_seen, soup, promising_links, enqueued,
                   crawl_result>>
    /\ UNCHANGED <<orchVars, gateVars, pureVars>>

\* Mutant of ToEnqueue: promising links of other domains are queued too.
ToEnqueue_any(promising, visited) ==
    SelectSeq(promising, LAMBDA l : l.url \notin visited)

\* Lines 679-687: the promising links that go to the queue.
ToEnqueue(promising, visited) ==
    SelectSeq(promising,
              LAMBDA l : l.url \notin visited /\ is_internal_link(l.url, base_url))

\* Mutant of AtDepth: the entries are queued one level deeper.
AtDepth_deeper(links, d) ==
    [i \in DOMAIN links |-> [url |-> links[i].url, depth |-> d + 1]]

\* Line 684: the entries (link['url'], depth + 1).
RECURSIVE AtDepth(_, _)
AtDepth(links, d) ==
    IF links = <<>> THEN <<>>
    ELSE <<[url |-> Head(links).url, depth |-> d]>> \o AtDepth(Tail(links), d)

\* Mutant of IsHomepage: every page is searched for promising links.
IsHomepage_any(depth) == TRUE

\* Line 675.
IsHomepage(depth) == depth = 0

\* Lines 656-691: the page is rendered, its links are collected and, at
\* depth 0, its promising internal links are queued.
VisitPage ==
    /\ Fetching
    /\ \E page \in Pages :
         LET cur == Head(urls_to_visit)
             visited == visited_urls \cup {cur.url}
             promising == IF IsHomepage(cur.depth)
                            THEN find_quarterly_links(page, cur.url, visited)
                            ELSE promising_links
             new == IF IsHomepage(cur.depth) THEN ToEnqueue(promising, visited)
                                             ELSE <<>>
         IN /\ soup' = page
            /\ anchors_seen' = anchors_seen \cup ToSet(page)
            /\ visited_urls' = visited
            /\ fetched' = Append(fetched, Outcome(cur, TRUE))
            /\ document_links' = extract_all_links(document_links, page, cur.url)
            /\ promising_links' = promising
            /\ urls_to_visit' = Tail(urls_to_visit) \o AtDepth(new, cur.depth + 1)
            /\ enqueued' = enqueued \cup {new[i].url : i \in DOMAIN new}
    /\ attempt' = 0
    /\ sleep_for' = 0
    /\ UNCHANGED <<base_url, max_depth, max_promising_links, crawlPc, crawl_result>>
    /\ UNCHANGED <<orchVars, gateVars, pureVars>>

\* Mutant of ReturnedLinks: the latest period is computed over every
\* collected link.
ReturnedLinks_alllinks(links) ==
    LET docs == {l \in links : l.link_type = "document"}
        latest == find_latest_quarter(links)
    IN {l \in docs : is_latest_quarter_document(l, latest)}

\* Lines 693-705: the documents among the collected links, filtered by the
\* latest period found among them.
ReturnedLinks(links) ==
    LET docs == {l \in links : l.link_type = "document"}
        latest == find_latest_quarter(docs)
    IN {l \in docs : is_latest_quarter_document(l, latest)}

\* Lines 693-713: the queue is empty; the documents of the latest quarter
\* are returned, and the locals of the call (soup among them) are gone.
CrawlReturn ==
    /\ crawlPc = "loop"
    /\ urls_to_visit = <<>>
    /\ crawl_result' = ReturnedLinks(document_links)
    /\ crawlPc' = "returned"
    /\ sleep_for' = 0
    /\ soup' = <<>>
    /\ UNCHANGED <<base_url, max_depth, max_promising_links, visited_urls,
                   document_links, urls_to_visit, anchors_seen, attempt,
                   fetched, promising_links, enqueued>>
    /\ UNCHANGED <<orchVars, gateVars, pureVars>>

CrawlNext ==
    \/ SkipEntry
    \/ FetchRetry
    \/ FetchFail
    \/ VisitPage
    \/ CrawlReturn

SpecCrawl == CrawlInit /\ [][CrawlNext]_vars

\* Every call the loop makes returns (a page fetch, a sleep), so the crawl
\* always takes its next step: an entry waiting at the head of the queue is
\* skipped or its fetch comes to an outcome, and on an empty queue the call
\* returns (the return is stated on the position of the call).
SpecCrawlFair ==
    /\ SpecCrawl
    /\ WF_vars(SkipEntry \/ FetchRetry \/ FetchFail)
    /\ WF_crawlPc(crawlPc = "loop" /\ urls_to_visit = <<>> /\ crawlPc' = "returned")

\* C9: every URL a crawl fetches was dequeued with a depth not above the
\* depth ceiling; a queue entry with a larger depth is dropped by the loop
\* (the crawl goes on); with a ceiling of 0 nothing but the seed is fetched,
\* whatever promising links the seed page had.
C9_DepthCeiling ==
    /\ \A i \in DOMAIN fetched : fetched[i].depth <= max_depth
    /\ (crawlPc = "loop" /\ urls_to_visit # <<>> /\ Head(urls_to_visit).depth > max_depth)
          => ENABLED SkipEntry
    /\ max_depth = 0 => \A i \in DOMAIN fetched : fetched[i].url = base_url

\* A crawl with ceiling 0 found a promising link on the seed page, queued it
\* at depth 1, and returned having fetched the seed alone.
C9_Witness ==
    /\ crawlPc = "returned"
    /\ max_depth = 0
    /\ enqueued # {}
    /\ Len(fetched) = 1

\* C10 as stated: a link on an excluded domain is never enqueued, never
\* visited, never among the collected links and never among the returned
\* documents.
C10_ExcludedNowhere ==
    /\ \A u \in enqueued : ~is_url_excluded(u)
    /\ \A i \in DOMAIN fetched :
         fetched[i].url # base_url => ~is_url_excluded(fetched[i].url)
    /\ \A l \in document_links : ~is_url_excluded(l.href)
    /\ \A l \in crawl_result : ~is_url_excluded(l.href)

\* C10, amended: a link on an excluded domain is never enqueued and never
\* visited, whatever its keyword score (the base URL itself is visited even
\* on an excluded domain); nothing is said of the collected links and the
\* returned documents.
C10_ExcludedNeverCrawled ==
    /\ \A u \in enqueued : ~is_url_excluded(u)
    /\ \A i \in DOMAIN fetched :
         fetched[i].url # base_url => ~is_url_excluded(fetched[i].url)
    /\ \A i \in DOMAIN urls_to_visit :
         urls_to_visit[i].url # base_url => ~is_url_excluded(urls_to_visit[i].url)

\* The page of a base URL on an excluded domain carried a link of that same
\* domain with a positive keyword score: it is internal and would rank
\* first, it was collected, and the crawl returned without queueing it.
C10_Witness ==
    /\ crawlPc = "returned"
    /\ \E l \in document_links :
         /\ is_url_excluded(l.href)
         /\ l.href # base_url
         /\ is_internal_link(l.href, base_url)
         /\ l.link_type # "document"
         /\ Score(l, l.href) > 0
    /\ enqueued = {}
    /\ Len(fetched) = 1

\* The crawl is in its loop and the page it tried last failed after its
\* retries.
AfterFetchFailure ==
    /\ crawlPc = "loop"
    /\ attempt = 0
    /\ fetched # <<>>
    /\ ~fetched[Len(fetched)].ok

\* C11: a page whose fetch fails after its retries is not fatal: the crawl
\* is never left by an exception; the failing step keeps every collected
\* link and leaves the loop running on the rest of the queue; after the
\* failure the crawl has a next step, towards its return; and a crawl whose
\* seed could not be fetched returns an empty document list.
C11_FetchFailureNotFatal ==
    /\ crawlPc \in {"loop", "returned"}
    /\ ~ENABLED (FetchFail /\ ~(/\ document_links' = document_links
                                /\ crawlPc' = "loop"
                                /\ urls_to_visit' = Tail(urls_to_visit)))
    /\ AfterFetchFailure => ENABLED CrawlNext
    /\ (crawlPc = "returned" /\ fetched # <<>> /\ ~fetched[1].ok)
          => crawl_result = {}

\* A page queued from the seed failed after its retries, after links had
\* been collected on the seed page, and the crawl returned documents.
C11_Witness ==
    /\ crawlPc = "returned"
    /\ Len(fetched) = 2
    /\ fetched[1].ok
    /\ ~fetched[2].ok
    /\ crawl_result # {}

\* C12: every URL a crawl fetches other than the seed, and every URL it
\* queues, has the domain of the base URL; a promising link of another
\* domain is at most collected.
C12_InternalOnly ==
    /\ \A i \in DOMAIN fetched :
         fetched[i].url # base_url => fetched[i].url.host = base_url.host
    /\ \A u \in enqueued : u.host = base_url.host
    /\ \A i \in DOMAIN urls_to_visit : urls_to_visit[i].url.host = base_url.host

\* The seed page carried a promising link of another domain that is not on
\* the exclusion list: it was collected, and the crawl returned without
\* having queued or fetched it.
C12_Witness ==
    /\ crawlPc = "returned"
    /\ \E l \in document_links :
         /\ l.href.host # base_url.host
         /\ ~is_url_excluded(l.href)
         /\ l.link_type = "external"
         /\ Score(l, l.href) > 0
         /\ l.href \notin enqueued
         /\ \A i \in DOMAIN fetched : fetched[i].url # l.href

\* C13: the collected link set never holds two links with the same resolved
\* href, whatever the texts, titles and source pages of the anchors.
C13_OneLinkPerHref ==
    \A l, m \in document_links : l.href = m.href => l = m

\* The seed page carried two anchors with the same resolved href and
\* different texts, and the set holds one link for them: the first one.
C13_Witness ==
    /\ Len(fetched) = 1
    /\ anchors_seen = {Anchor(NavAbout, <<"q4", "10-k">>), Anchor(RootAbout, <<>>)}
    /\ document_links = {create_document_link(Anchor(NavAbout, <<"q4", "10-k">>), base_url, base_url)}

\* C21: the result of a crawl session does not depend on a crawl run earlier
\* on the same scraper: whatever the scraper visited before, a session
\* fetches its seed, and a session that returns has nothing but its own
\* fetches in the visited set.
C21_FreshFrontier ==
    crawlPc = "returned" =>
        /\ fetched # <<>>
        /\ fetched[1].url = base_url
        /\ visited_urls = {fetched[i].url : i \in DOMAIN fetched}

\* C25: for one URL get_rendered_content makes at most max_retries + 1
\* attempts; a successful attempt ends the call at once; before the k-th
\* retry it waits backoff_seconds * 2^(k-1) seconds plus the jitter; after
\* the last failed attempt it does not wait, and reports the page
\* unreachable without raising: the crawl loop goes on.
C25_RetryBudget ==
    /\ [](attempt \in 0..max_retries)
    \* an attempt failed and another one follows
    /\ [][(fetched' = fetched /\ attempt' # attempt) =>
              (/\ attempt' = attempt + 1
               /\ attempt' <= max_retries
               /\ sleep_for' >= backoff_seconds * 2^(attempt' - 1)
               /\ sleep_for' <= backoff_seconds * 2^(attempt' - 1) + jitter_seconds)]_vars
    \* the call returned: a page at any attempt, None after the last one
    /\ [][fetched' # fetched =>
              (/\ fetched' = Append(fetched, fetched'[Len(fetched')])
               /\ (fetched'[Len(fetched')].ok \/ attempt = max_retries)
               /\ sleep_for' = 0
               /\ attempt' = 0
               /\ crawlPc' = "loop")]_vars

\* C25 witness: the second retry of a page queued from the seed is about to
\* be made, after the longest wait.
C25_Witness ==
    /\ fetched # <<>>
    /\ attempt = max_retries
    /\ sleep_for = backoff_seconds * 2 + jitter_seconds

\* C26: every crawl terminates with an empty frontier: the queue receives
\* entries only while the seed page is processed, and a session fetches at
\* most 1 + max_promising_links pages, whatever the links of the site.
C26_Terminates ==
    /\ <>(crawlPc = "returned")
    /\ [](crawlPc = "returned" => urls_to_visit = <<>>)
    /\ [](Len(fetched) <= 1 + max_promising_links)
    /\ [][IF urls_to_visit = <<>>
            THEN urls_to_visit' = <<>>
            ELSE \/ urls_to_visit' \in {urls_to_visit, Tail(urls_to_visit)}
                 \/ /\ fetched = <<>>
                    /\ Head(urls_to_visit) = [url |-> base_url, depth |-> 0]]_vars

\* C26 witness: a crawl returned after fetching its seed and as many pages
\* as the seed may queue.
C26_Witness ==
    /\ crawlPc = "returned"
    /\ max_promising_links = MaxPromising
    /\ Len(fetched) = 1 + max_promising_links
    /\ visited_urls = {Seed, NavAbout, NavQuarterly}
    /\ Anchor(NavAbout, <<"q4", "10-k">>) \in anchors_seen

\* C27: within a crawl session no URL is fetched more than once: a URL is
\* in the visited set from before its fetch returns and stays there, also
\* when the fetch fails; a dequeued URL that is visited is discarded without
\* a fetch, also when the same URL was queued several times.
C27_FetchedOnce ==
    /\ [](\A i, j \in DOMAIN fetched : fetched[i].url = fetched[j].url => i = j)
    /\ [](\A i \in DOMAIN fetched : fetched[i].url \in visited_urls)
    /\ [](attempt > 0 => Head(urls_to_visit).url \in visited_urls)
    /\ [][visited_urls \subseteq visited_urls']_vars
    /\ [][(attempt = 0 /\ urls_to_visit # <<>> /\
           Head(urls_to_visit).url \in visited_urls) =>
              (/\ urls_to_visit' = Tail(urls_to_visit)
               /\ fetched' = fetched
               /\ attempt' = 0)]_vars

\* C27 witness: the seed queued the same URL twice; its fetch failed, and
\* the second entry is at the head of the queue.
C27_Witness ==
    /\ Len(fetched) = 2
    /\ ~fetched[2].ok
    /\ attempt = 0
    /\ urls_to_visit = <<[url |-> fetched[2].url, depth |-> 1]>>

\* C28: the list a crawl returns is exactly the set of the collected links
\* of type document that are relevant against the latest period, the latest
\* period being the greatest (year, quarter) among the document links (a
\* missing quarter counting as 4; the current year and 4 when no document
\* has a year): links of another type never influence it and are never
\* returned.
C28_ReturnedDocuments ==
    crawlPc = "returned" =>
        LET docs == {l \in document_links : l.link_type = "document"}
            P(l) == extract_year_quarter(l.text, l.href, l.title)
            Q(l) == IF P(l).quarter = 0 THEN 4 ELSE P(l).quarter
            dated == {l \in docs : P(l).year # 0}
            Before(l, m) == \/ P(l).year < P(m).year
                            \/ P(l).year = P(m).year /\ Q(l) <= Q(m)
            top == CHOOSE m \in dated : \A l \in dated : Before(l, m)
            Y == IF dated = {} THEN current_year ELSE P(top).year
            Qt == IF dated = {} THEN 4 ELSE Q(top)
            Relevant(l) == \/ P(l).year = 0
                           \/ P(l).year > Y
                           \/ P(l).year = Y /\ (P(l).quarter = 0 \/ P(l).quarter >= Qt)
        IN /\ crawl_result = {l \in docs : Relevant(l)}
           /\ \A l \in crawl_result : l.link_type = "document"

\* C28 witness: a crawl collected a navigation link of 2026 and returned a
\* document of 2025.
C28_Witness ==
    /\ crawlPc = "returned"
    /\ \E l \in document_links :
          /\ l.link_type # "document"
          /\ extract_year_quarter(l.text, l.href, l.title).year = 2026
    /\ \E l \in crawl_result :
          extract_year_quarter(l.text, l.href, l.title).year = 2025

\* C29: on the seed page the navigation candidates kept for the queue are at
\* most max_promising_links links, each of them a non-document link outside
\* the exclusion list with a score above 0, and no candidate left out has a
\* higher score than a candidate kept; the cut is made before the domain
\* test, so that only the kept links of the base domain are queued.
C29_TopCandidates ==
    (Len(fetched) = 1 /\ fetched[1].ok /\ attempt = 0) =>
        LET kept == promising_links
            Target(a) == resolve_url(a.href, base_url)
            Qualifies(a) ==
                /\ classify_link(a.href, base_url) \notin {"document", "invalid"}
                /\ Target(a) \notin visited_urls \cup {NoUrl}
                /\ \A d \in exclusion_domains : ~IsInfix(d, Target(a).host)
                /\ Score(a, Target(a)) > 0
            Is(a, k) == k.url = Target(a) /\ k.score = Score(a, Target(a))
        IN /\ Len(kept) <= max_promising_links
           /\ \A i \in DOMAIN kept : \E a \in anchors_seen : Qualifies(a) /\ Is(a, kept[i])
           /\ \A a \in anchors_seen :
                 Qualifies(a) =>
                    \/ \E i \in DOMAIN kept : Is(a, kept[i])
                    \/ /\ Len(kept) = max_promising_links
                       /\ \A i \in DOMAIN kept : kept[i].score >= Score(a, Target(a))
           /\ enqueued = {kept[i].url : i \in {j \in DOMAIN kept :
                                                kept[j].url.host = base_url.host}}

\* C29 witness: the seed page had a candidate of the base domain and one of
\* another domain; the cut kept the other domain's, and nothing was queued.
C29_Witness ==
    /\ Len(fetched) = 1
    /\ fetched[1].ok
    /\ Len(promising_links) = max_promising_links
    /\ enqueued = {}
    /\ anchors_seen = {Anchor(PressNav, <<>>), Anchor(NavQuarterly, <<>>)}

\* C32: for every DocumentLink, file_extension is the lower-cased last
\* dot-segment of the URL path, and is empty when the path has no extension
\* (an absolute URL whose only dots are in the host name); document_type is
\* then unknown.
C32_ExtensionOfPath ==
    \A l \in document_links :
        /\ l.href.ext # "" => l.file_extension = <<Lower(l.href.ext)>>
        /\ l.href.ext = "" => /\ l.file_extension = <<>>
                              /\ l.document_type = "unknown"

\* C35: links are queued only while the depth-0 page is processed, so no URL
\* is fetched, or queued, at depth 2 or more: the test of an entry's depth
\* against a ceiling of 2 never differs from the test against a ceiling of
\* 1, and a crawl with ceiling 2 fetches what a crawl with ceiling 1 does.
C35_NoDepthTwo ==
    /\ \A i \in DOMAIN fetched : fetched[i].depth <= 1
    /\ \A i \in DOMAIN urls_to_visit :
          /\ urls_to_visit[i].depth <= 1
          /\ (urls_to_visit[i].depth > 2) <=> (urls_to_visit[i].depth > 1)
    /\ \A i \in DOMAIN fetched : fetched[i].depth = 1 => fetched[i].url \in enqueued

\* C35 witness: under a ceiling of 2 a page of depth 1 held a promising link
\* to a page not yet visited, and the crawl returned without visiting it.
C35_Witness ==
    /\ crawlPc = "returned"
    /\ max_depth = 2
    /\ max_promising_links = MaxPromising
    /\ visited_urls = {Seed, NavAbout}
    /\ fetched[2].ok
    /\ Anchor(NavQuarterly, <<>>) \in anchors_seen

\* C36: when the same resolved href is encountered more than once in a crawl
\* session, on one page or on several, the collected entry is the one of the
\* first encounter in visit order: a step of the crawl leaves every entry
\* collected before as it is, and an entry it adds is the link made from the
\* first anchor of the rendered page that resolves to its href.
C36_FirstEncounterKept ==
    [][/\ document_links \subseteq document_links'
       /\ \A l \in document_links' \ document_links :
             LET cur == Head(urls_to_visit).url
                 made(i) == create_document_link(soup'[i], cur, cur)
             IN \E i \in DOMAIN soup' :
                   /\ l = made(i)
                   /\ \A j \in 1..(i - 1) : made(j) = NoUrl \/ made(j).href # l.href]_vars

\* C36 witness: the seed page carried an anchor to the about page with a
\* text; the about page, visited next, carried an anchor with the same
\* resolved href and no text; the set still holds the entry made on the seed
\* page.
C36_Witness ==
    /\ base_url = Seed
    /\ Len(fetched) = 2
    /\ fetched[2].url = NavAbout
    /\ fetched[2].ok
    /\ Anchor(RootAbout, <<>>) \in ToSet(soup)
    /\ create_document_link(Anchor(NavAbout, <<"q4", "10-k">>), Seed, Seed) \in document_links

(***************************************************************************)
(* SpecClassify: one call of classify_link on an href and a base URL.      *)
(***************************************************************************)
HrefForms == {"http", "root", "netpath", "rel", "scheme"}
HrefHosts == {IRHost, PressHost}
HrefPaths == {<<>>, <<"about">>, <<"Download">>, <<"profile">>}
HrefExts == {"", "pdf", "PDF", "html"}

\* The hrefs classify_link is called with: the empty string and the
\* well-formed combinations of form, host, path and extension.
ClassifyHrefs ==
    {NoUrl} \cup
    {h \in [form : HrefForms, host : HrefHosts \cup {<<>>}, path : HrefPaths,
            ext : HrefExts] :
        /\ (h.host = <<>>) <=> (h.form \in {"root", "rel"})
        /\ h.ext # "" => h.path # <<>>
        /\ h.form = "rel" => h.path # <<>>}

ClassifyBases == {Seed, PressNav}

ClassifyInit ==
    /\ OrchIdle
    /\ GateIdle
    /\ CrawlIdle
    /\ PeriodIdle
    /\ SinkIdle
    /\ TaskIdle
    /\ current_year = CurrentYear
    /\ classify_href \in ClassifyHrefs
    /\ classify_base \in ClassifyBases
    /\ classify_result = "unset"

\* Lines 473-507: the call returns.
ClassifyCall ==
    /\ classify_result = "unset"
    /\ classify_result' = classify_link(classify_href, classify_base)
    /\ UNCHANGED <<classify_href, classify_base>>
    /\ UNCHANGED <<orchVars, gateVars, crawlVars, periodVars, sinkVars, taskVars>>

ClassifyNext == ClassifyCall

SpecClassify == ClassifyInit /\ [][ClassifyNext]_vars

\* The extensions the claims call recognized.
RecognizedExtensions ==
    {"pdf", "doc", "docx", "xls", "xlsx", "ppt", "pptx", "zip", "rar", "csv",
     "txt", "rtf", "xml", "json"}

\* The href ends in a recognized extension, in any letter case.
EndsInRecognizedExtension(href) ==
    \E e \in RecognizedExtensions : href.ext = e \/ Lower(href.ext) = e

\* The href contains a document-intent keyword, in any letter case.
HasDocumentKeyword(href) ==
    \E t \in UrlTokens(href) :
       \E k \in {"file", "download", "document", "attachment"} :
          <<k, Lower(t)>> \in Substrings

\* C19: an href that ends in a recognized document extension, in any letter
\* case, is classified document whatever its domain and the base URL.
C19_ExtensionIsDocument ==
    (classify_result # "unset" /\ EndsInRecognizedExtension(classify_href))
        => classify_result = "document"

\* An absolute href of another domain than the base, ending in .PDF, was
\* classified document.
C19_Witness ==
    /\ classify_result = "document"
    /\ classify_href.form = "http"
    /\ classify_href.host # classify_base.host
    /\ classify_href.ext = "PDF"
    /\ ~HasDocumentKeyword(classify_href)

\* C20: a non-empty href with no recognized extension and no document
\* keyword is classified internal exactly when it is a root-relative path
\* or has the domain of the base URL (a relative href has the domain it
\* resolves to), and external otherwise.
C20_InternalIffSameDomain ==
    (/\ classify_result # "unset"
     /\ classify_href # NoUrl
     /\ ~EndsInRecognizedExtension(classify_href)
     /\ ~HasDocumentKeyword(classify_href))
        => /\ classify_result \in {"internal", "external"}
           /\ classify_result = "internal" <=>
                \/ classify_href.form = "root"
                \/ resolve_url(classify_href, classify_base).host = classify_base.host

(***************************************************************************)
(* SpecPeriod: extract_year_quarter, find_latest_quarter and               *)
(* is_latest_quarter_document applied to a set of document links.          *)
(***************************************************************************)
\* Largest number of links in the set.
MaxLinks == 5

\* The years datetime.now().year is drawn from.
Years == (CurrentYear - 1)..(CurrentYear + 1)

Doc(name, txt) == [href |-> Url(IRHost, <<name>>, "pdf"), text |-> txt, title |-> <<>>]

\* The document links of the model, by the words of their text, plus one
\* link dated by its URL alone.
PeriodLinks ==
    {Doc("a", <<"Q2", "2025">>), Doc("b", <<"q2", "2025">>), Doc("c", <<"q2", "2025">>),
     Doc("d", <<"q4", "2025">>), Doc("e", <<"2026">>), Doc("f", <<"report">>),
     Doc("g", <<"FY25">>), Doc("h", <<"q1", "fy26">>), Doc("k", <<"25">>),
     Doc("m", <<"2025">>),
     [href |-> DocOld, text |-> <<>>, title |-> <<>>]}

\* The latest periods is_latest_quarter_document is called with.
LatestPeriods == [year : Years, quarter : 1..4]

ExtractAll(links) ==
    [l \in links |-> extract_year_quarter(l.text, l.href, l.title)]

PeriodInit ==
    /\ OrchIdle
    /\ GateIdle
    /\ CrawlIdle
    /\ ClassifyIdle
    /\ SinkIdle
    /\ TaskIdle
    /\ current_year \in Years
    /\ all_document_links \in {S \in SUBSET PeriodLinks : Cardinality(S) <= MaxLinks}
    /\ year_quarter = <<>>
    /\ latest_period = NoPeriod
    /\ relevant_links = {}
    /\ periodPc = "input"

\* Lines 398-423: find_latest_quarter on the links.
FindLatest ==
    /\ periodPc = "input"
    /\ year_quarter' = ExtractAll(all_document_links)
    /\ latest_period' = find_latest_quarter(all_document_links)
    /\ periodPc' = "latest"
    /\ UNCHANGED <<current_year, all_document_links, relevant_links>>
    /\ UNCHANGED <<orchVars, gateVars, crawlVars, classifyVars, sinkVars, taskVars>>

\* is_latest_quarter_document is to be called with a latest period of the
\* caller's choice.
GivenLatest ==
    /\ periodPc = "input"
    /\ latest_period' \in LatestPeriods
    /\ periodPc' = "given"
    /\ UNCHANGED <<current_year, all_document_links, year_quarter, relevant_links>>
    /\ UNCHANGED <<orchVars, gateVars, crawlVars, classifyVars, sinkVars, taskVars>>

\* Lines 371-396 on every link (as in lines 702-705).
FilterLatest ==
    /\ periodPc \in {"latest", "given"}
    /\ year_quarter' = ExtractAll(all_document_links)
    /\ relevant_links' =
         {l \in all_document_links : is_latest_quarter_document(l, latest_period)}
    /\ periodPc' = IF periodPc = "latest" THEN "filtered" ELSE "filtered_given"
    /\ UNCHANGED <<current_year, all_document_links, latest_period>>
    /\ UNCHANGED <<orchVars, gateVars, crawlVars, classifyVars, sinkVars, taskVars>>

\* Lines 697-705 once more, on the links the filter kept: the latest period
\* of the filtered list, and that list filtered by it.
FilterAgain ==
    /\ periodPc = "filtered"
    /\ latest_period' = find_latest_quarter(relevant_links)
    /\ relevant_links' =
         {l \in relevant_links : is_latest_quarter_document(l, latest_period')}
    /\ periodPc' = "refiltered"
    /\ UNCHANGED <<current_year, all_document_links, year_quarter>>
    /\ UNCHANGED <<orchVars, gateVars, crawlVars, classifyVars, sinkVars, taskVars>>

PeriodNext ==
    \/ FindLatest
    \/ GivenLatest
    \/ FilterLatest
    \/ FilterAgain

SpecPeriod == PeriodInit /\ [][PeriodNext]_vars

\* The links that yield a year, and the period a link counts for.
Dated == {l \in DOMAIN year_quarter : year_quarter[l].year # 0}
PeriodOf(l) ==
    [year |-> year_quarter[l].year,
     quarter |-> IF year_quarter[l].quarter = 0 THEN 4 ELSE year_quarter[l].quarter]
LexLeq(p, q) == p.year < q.year \/ (p.year = q.year /\ p.quarter <= q.quarter)

\* The number of links with the given extracted year and quarter.
Count(y, q) ==
    Cardinality({l \in DOMAIN year_quarter : year_quarter[l] = [year |-> y, quarter |-> q]})

\* The links of the example: (2025,2) three times, (2025,4), (2026,None).
ExampleLinks ==
    /\ Cardinality(DOMAIN year_quarter) = 5
    /\ Count(2025, 2) = 3
    /\ Count(2025, 4) = 1
    /\ Count(2026, 0) = 1

\* C14: find_latest_quarter returns the lexicographic maximum of (year,
\* quarter) over the links that yield a year, a missing quarter counting as
\* 4 and links without a year being ignored; (current year, 4) when no link
\* yields a year; on the example it returns (2026, 4) and the filter then
\* rejects the (2025, 2) links.
C14_LatestPeriod ==
    (periodPc \in {"latest", "filtered"}) =>
        /\ Dated = {} => latest_period = [year |-> current_year, quarter |-> 4]
        /\ Dated # {} =>
             /\ \E l \in Dated : latest_period = PeriodOf(l)
             /\ \A l \in Dated : LexLeq(PeriodOf(l), latest_period)
        /\ ExampleLinks =>
             /\ latest_period = [year |-> 2026, quarter |-> 4]
             /\ periodPc = "filtered" =>
                  \A l \in relevant_links : year_quarter[l].year # 2025

\* The example was given, (2026, 4) was found and the filter kept the link
\* of 2026 alone.
C14_Witness ==
    /\ periodPc = "filtered"
    /\ ExampleLinks
    /\ latest_period = [year |-> 2026, quarter |-> 4]
    /\ Cardinality(relevant_links) = 1

\* C15: a document from which no year is extracted is kept, whatever the
\* latest period.
C15_NoYearIsRelevant ==
    (periodPc \in {"filtered", "filtered_given"}) =>
        \A l \in all_document_links : year_quarter[l].year = 0 => l \in relevant_links

\* With a latest period of the caller's choice, a document without a year
\* was kept while a dated one was rejected.
C15_Witness ==
    /\ periodPc = "filtered_given"
    /\ \E l \in relevant_links : year_quarter[l].year = 0
    /\ \E l \in all_document_links : l \notin relevant_links

\* C16: a document with year y and quarter q (possibly unknown) against the
\* latest period (Y, Q) is rejected when y < Y, kept when y > Y, and when
\* y = Y kept if q is unknown, rejected if q < Q and kept otherwise.
C16_RelevanceByPeriod ==
    (periodPc \in {"filtered", "filtered_given"}) =>
        \A l \in Dated :
           LET y == year_quarter[l].year
               q == year_quarter[l].quarter
           IN /\ y < latest_period.year => l \notin relevant_links
              /\ y > latest_period.year => l \in relevant_links
              /\ (y = latest_period.year /\ q = 0) => l \in relevant_links
              /\ (y = latest_period.year /\ q # 0 /\ q < latest_period.quarter)
                    => l \notin relevant_links
              /\ (y = latest_period.year /\ q # 0 /\ q >= latest_period.quarter)
                    => l \in relevant_links

\* One filter met the five cases: an older year, a newer year, the same
\* year without a quarter, with an earlier quarter and with the same one.
C16_Witness ==
    /\ periodPc = "filtered_given"
    /\ \E l \in Dated : year_quarter[l].year < latest_period.year /\ l \notin relevant_links
    /\ \E l \in Dated : year_quarter[l].year > latest_period.year /\ l \in relevant_links
    /\ \E l \in Dated : /\ year_quarter[l].year = latest_period.year
                        /\ year_quarter[l].quarter = 0
                        /\ l \in relevant_links
    /\ \E l \in Dated : /\ year_quarter[l].year = latest_period.year
                        /\ year_quarter[l].quarter # 0
                        /\ year_quarter[l].quarter < latest_period.quarter
                        /\ l \notin relevant_links
    /\ \E l \in Dated : /\ year_quarter[l].year = latest_period.year
                        /\ year_quarter[l].quarter >= latest_period.quarter
                        /\ l \in relevant_links

\* C17: extract_year_quarter never returns a year above the current year
\* plus one, and never a bare two-digit number as the year.
C17_YearBound ==
    \A l \in DOMAIN year_quarter :
       /\ year_quarter[l].year <= current_year + 1
       /\ year_quarter[l].year \notin 10..99

\* A text naming a year two years ahead and a text that is a bare two-digit
\* number both gave no year.
C17_Witness ==
    /\ periodPc = "latest"
    /\ \E l \in DOMAIN year_quarter :
         /\ \E y \in years_found(l.text, l.href, l.title) : y > current_year + 1
         /\ year_quarter[l].year = 0
    /\ \E l \in DOMAIN year_quarter :
         /\ l.text = <<"25">>
         /\ year_quarter[l].year = 0

\* C18: a year extract_year_quarter returns is the current year or the
\* current year plus one, for every current year and input.
C18_YearIsCurrentOrNext ==
    \A l \in DOMAIN year_quarter :
       year_quarter[l].year # 0 => year_quarter[l].year \in {current_year, current_year + 1}

(***************************************************************************)
(* SpecSink: simple_metadata_collector.py, the metadata directory under    *)
(* the calls of complete_company_processing of successive company runs.    *)
(***************************************************************************)
\* The clock runs from second 0 to second MaxSecond.
MaxSecond == 1
\* Largest number of run completions.
MaxCompletions == 3

SinkInit ==
    /\ OrchIdle
    /\ GateIdle
    /\ CrawlIdle
    /\ ClassifyIdle
    /\ PeriodIdle
    /\ TaskIdle
    /\ current_year = CurrentYear
    /\ SinkIdle

\* A second passes on the wall clock.
SinkTick ==
    /\ sink_now < MaxSecond
    /\ sink_now' = sink_now + 1
    /\ UNCHANGED <<metadata_dir, completions>>
    /\ UNCHANGED <<orchVars, gateVars, crawlVars, classifyVars, periodVars, taskVars>>

\* Lines 122-123: the file name is made of the company and of the time to
\* the second.
filename(company, second) == <<company, second>>

\* Lines 115-130: the record of the run is written to filename(company,
\* now) with open(filepath, 'w'), which replaces a file of that name.  `run`
\* tells the records of different runs apart, as their pipeline_start_time
\* and stage times do.
complete_company_processing(company, success) ==
    /\ Len(completions) < MaxCompletions
    /\ LET run == Len(completions) + 1
           record == [company |-> company,
                      status |-> IF success THEN "completed" ELSE "failed",
                      run |-> run]
           name == filename(company, sink_now)
       IN /\ metadata_dir' = {f \in metadata_dir : f.name # name}
                               \cup {[name |-> name, content |-> record]}
          /\ completions' = Append(completions, record)
    /\ UNCHANGED sink_now
    /\ UNCHANGED <<orchVars, gateVars, crawlVars, classifyVars, periodVars, taskVars>>

SinkNext ==
    \/ SinkTick
    \/ \E c \in Companies, success \in BOOLEAN : complete_company_processing(c, success)

SpecSink == SinkInit /\ [][SinkNext]_vars

\* C23: the record sink is append-only: writing a run record never replaces
\* a record written earlier, so that after any sequence of run completions
\* the directory holds one record per completion.
C23_AppendOnly ==
    /\ Cardinality(metadata_dir) = Len(completions)
    /\ \A i \in DOMAIN completions : \E f \in metadata_dir : f.content = completions[i]

\* C30: a text whose only period signal is a 2-digit fiscal-year idiom
\* (fy25, fy26, 25fy, 26fy) yields the 4-digit year it stands for and no
\* quarter; a combined form, a quarter next to the idiom, yields that year
\* and that quarter.  (Stated for the years extract_year_quarter may
\* return, those up to the current year plus one.)
C30_FiscalYearIdiom ==
    \A l \in DOMAIN year_quarter :
        LET words == [i \in DOMAIN l.text |-> Lower(l.text[i])]
            FiscalYear(w) == CASE w \in {"fy25", "25fy"} -> 2025
                               [] w \in {"fy26", "26fy"} -> 2026
                               [] OTHER -> 0
            Quarter(w) == CASE w = "q1" -> 1 [] w = "q2" -> 2
                            [] w = "q3" -> 3 [] w = "q4" -> 4 [] OTHER -> 0
            Undated == extract_year_quarter(<<>>, l.href, l.title) = NoPeriod
        IN /\ (/\ Undated
               /\ Len(words) = 1
               /\ FiscalYear(words[1]) \in 2025..(current_year + 1))
                  => year_quarter[l] = [year |-> FiscalYear(words[1]), quarter |-> 0]
           /\ (/\ Undated
               /\ Len(words) = 2
               /\ Quarter(words[1]) # 0
               /\ FiscalYear(words[2]) \in 2025..(current_year + 1))
                  => year_quarter[l] = [year |-> FiscalYear(words[2]),
                                        quarter |-> Quarter(words[1])]

\* C31: extract_year_quarter returns, independently of the year, the
\* greatest of the quarter markers that occur in the combined text: the
\* returned quarter is always one that occurs in the input (q1 fy26 gives
\* quarter 1), and the result is (None, None) when nothing matches.
C31_QuarterOccursInInput ==
    \A l \in DOMAIN year_quarter :
        LET words == {Lower(w) : w \in ToSet(l.text) \cup ToSet(l.title) \cup UrlTokens(l.href)}
            Marker(w) == CASE w = "q1" -> 1 [] w = "q2" -> 2
                           [] w = "q3" -> 3 [] w = "q4" -> 4 [] OTHER -> 0
            markers == {Marker(w) : w \in words} \ {0}
            signals == words \cap {"2025", "2026", "fy2025", "fy2026", "fy25", "fy26",
                                 "25fy", "26fy"}
        IN /\ year_quarter[l].quarter # 0 => year_quarter[l].quarter \in markers
           /\ markers # {} => year_quarter[l].quarter = SetMax(markers)
           /\ (markers = {} /\ signals = {}) => year_quarter[l] = NoPeriod

\* C33: the relevance filter never empties a non-empty document set: against
\* the latest period found for the set, every link is kept when none has a
\* year, and otherwise a link that attains the latest period is kept.
C33_FilterKeepsOne ==
    (periodPc = "filtered" /\ all_document_links # {}) =>
        /\ relevant_links # {}
        /\ Dated = {} => relevant_links = all_document_links
        /\ Dated # {} => \E l \in Dated \cap relevant_links : PeriodOf(l) = latest_period

\* C33 witness: the filter rejected a link of an earlier period and kept a
\* link with a quarter that attains the latest period.
C33_Witness ==
    /\ periodPc = "filtered"
    /\ relevant_links # all_document_links
    /\ \E l \in Dated \cap relevant_links :
          /\ year_quarter[l].quarter # 0
          /\ PeriodOf(l) = latest_period

\* C34: the relevance filter is idempotent: the latest period of the
\* filtered set is the latest period of the original set, and filtering the
\* filtered set again removes nothing.
C34_FilterIdempotent ==
    [][periodPc' = "refiltered" =>
          /\ latest_period' = latest_period
          /\ relevant_links' = relevant_links]_vars

\* C34 witness: a set from which the filter had removed links was filtered
\* again.
C34_Witness ==
    /\ periodPc = "refiltered"
    /\ relevant_links # {}
    /\ relevant_links # all_document_links
    /\ latest_period.year # current_year

(***************************************************************************)
(* SpecTask: orchestrator.py process_company with the record of            *)
(* simple_metadata_collector.py and the browser session of the scraper,    *)
(* for the companies one worker thread processes one after another.        *)
(***************************************************************************)
\* Largest number of companies the thread processes.
MaxTasks == 2
\* Largest number of report URLs parse_report_file returns for a company.
MaxFiles == 2

\* The stage times of a record, in the order of the stages.
StageTimes ==
    <<"scraping_start_time", "scraping_end_time", "extraction_start_time",
      "extraction_end_time", "download_start_time", "download_end_time">>

\* simple_metadata_collector.py lines 36-60: every stage time is None and
\* downloaded_files is empty (stamps: the stage times that are set).
start_company_processing ==
    [status |-> "in_progress", error_message |-> "none", stamps |-> {},
     downloaded_files |-> <<>>]

\* Lines 62-65.
update_scraping_start(md) ==
    [md EXCEPT !.stamps = @ \cup {"scraping_start_time"}]

\* Lines 67-72.
update_scraping_complete(md) ==
    [md EXCEPT !.stamps = @ \cup {"scraping_end_time"}]

\* Mutant of update_extraction_start: the start of the extraction is not
\* stamped.
update_extraction_start_unstamped(md) == md

\* Lines 74-78.
update_extraction_start(md) ==
    [md EXCEPT !.stamps = @ \cup {"extraction_start_time"}]

\* Lines 80-83.
update_extraction_complete(md) ==
    [md EXCEPT !.stamps = @ \cup {"extraction_end_time"}]

\* Lines 85-88.
update_download_start(md) ==
    [md EXCEPT !.stamps = @ \cup {"download_start_time"}]

\* Lines 90-108: the file is listed when file_info['success'] is true.
update_download_progress(md, file_info) ==
    IF file_info.success
      THEN [md EXCEPT !.downloaded_files = Append(@, file_info.url)]
      ELSE md

\* Lines 110-113.
update_download_complete(md) ==
    [md EXCEPT !.stamps = @ \cup {"download_end_time"}]

\* orchestrator.py lines 184-226, the loop over urls_data from entry i on:
\* results[i] is what download_file returned for the i-th URL.  For a
\* download that succeeded the metadata of the newest file of the company's
\* download directory is reported, when that directory exists and holds a
\* file (found); for one that failed a metadata with success False is.
RECURSIVE DownloadLoop(_, _, _, _)
DownloadLoop(md, results, found, i) ==
    IF i > Len(results) THEN md
    ELSE DownloadLoop(
           IF results[i]
             THEN IF found
                    THEN update_download_progress(md, [url |-> i, success |-> TRUE])
                    ELSE md
             ELSE update_download_progress(md, [url |-> i, success |-> FALSE]),
           results, found, i + 1)

\* enhanced_selenium_scraper.py lines 167-204: webdriver.Chrome starts a
\* browser session, or raises and the exception is logged and swallowed.
setup_driver(open, chrome_started) ==
    IF chrome_started THEN Append(open, "open") ELSE open

\* The record as complete_company_processing writes it (lines 115-130); run
\* tells the records of the calls apart, as pipeline_start_time does.
Written(md) ==
    [run |-> started, status |-> md.status, error_message |-> md.error_message,
     stamps |-> md.stamps, downloaded_files |-> md.downloaded_files]

TaskInit ==
    /\ OrchIdle
    /\ GateIdle
    /\ CrawlIdle
    /\ ClassifyIdle
    /\ PeriodIdle
    /\ SinkIdle
    /\ current_year = CurrentYear
    /\ TaskIdle

\* process_company lines 54-67: the collector is created, the record is
\* started and the scraping start is stamped.  The files an earlier run
\* left for the company are there or not.
TaskBegin ==
    /\ taskPc \in {"idle", "returned", "escaped"}
    /\ started < MaxTasks
    /\ started' = started + 1
    /\ current_metadata' = update_scraping_start(start_company_processing)
    /\ taskPc' = "scrape"
    /\ exc_message' = "none"
    /\ ir_file' \in {"absent", "stale"}
    /\ report_file' \in {"absent", "stale"}
    /\ download_results' = <<>>
    /\ driver' = "none"
    /\ UNCHANGED <<sessions, records>>
    /\ UNCHANGED <<orchVars, gateVars, crawlVars, classifyVars, periodVars, sinkVars>>

\* Lines 69-70: the scraper is constructed, which sets up its driver, and
\* the crawl returns its documents or raises.
TaskScrape ==
    /\ taskPc = "scrape"
    /\ \E chrome_started \in BOOLEAN :
          /\ sessions' = setup_driver(sessions, chrome_started)
          /\ driver' = IF chrome_started THEN "session" ELSE "none"
    /\ \/ taskPc' = "save" /\ UNCHANGED exc_message
       \/ taskPc' = "handler" /\ exc_message' = "text"
    /\ UNCHANGED <<started, current_metadata, ir_file, report_file,
                   download_results, records>>
    /\ UNCHANGED <<orchVars, gateVars, crawlVars, classifyVars, periodVars, sinkVars>>

\* Lines 73-88: the link file is written, or the failure to write it is
\* swallowed; the scraping end is stamped.
TaskSaveLinks ==
    /\ taskPc = "save"
    /\ \E written \in BOOLEAN : ir_file' = IF written THEN "fresh" ELSE ir_file
    /\ current_metadata' = update_scraping_complete(current_metadata)
    /\ taskPc' = "read"
    /\ UNCHANGED <<started, exc_message, report_file, download_results, driver,
                   sessions, records>>
    /\ UNCHANGED <<orchVars, gateVars, crawlVars, classifyVars, periodVars, sinkVars>>

\* Lines 94-98: the link file is read (FileNotFoundError when there is
\* none) and the extraction start is stamped.
TaskReadLinks ==
    /\ taskPc = "read"
    /\ IF ir_file = "absent"
         THEN /\ taskPc' = "handler"
              /\ exc_message' = "text"
              /\ UNCHANGED current_metadata
         ELSE /\ taskPc' = "extract"
              /\ current_metadata' = update_extraction_start(current_metadata)
              /\ UNCHANGED exc_message
    /\ UNCHANGED <<started, ir_file, report_file, download_results, driver,
                   sessions, records>>
    /\ UNCHANGED <<orchVars, gateVars, crawlVars, classifyVars, periodVars, sinkVars>>

\* Lines 100-161: extract_reports writes the report file and returns, and
\* the extraction end is stamped, or it raises.
TaskExtract ==
    /\ taskPc = "extract"
    /\ \/ /\ report_file' = "fresh"
          /\ current_metadata' = update_extraction_complete(current_metadata)
          /\ taskPc' = "download"
          /\ UNCHANGED exc_message
       \/ /\ taskPc' = "handler"
          /\ exc_message' = "text"
          /\ UNCHANGED <<report_file, current_metadata>>
    /\ UNCHANGED <<started, ir_file, download_results, driver, sessions, records>>
    /\ UNCHANGED <<orchVars, gateVars, crawlVars, classifyVars, periodVars, sinkVars>>

\* Lines 164-232, the download stage: with a report file, the start is
\* stamped, every URL of the file is downloaded and reported, and the end
\* is stamped (download_file catches every exception); without one the code
\* calls update_download_failed, which the collector does not define.
TaskDownload ==
    /\ taskPc = "download"
    /\ IF report_file = "absent"
         THEN /\ taskPc' = "handler"
              /\ exc_message' = "text"
              /\ UNCHANGED <<current_metadata, download_results>>
         ELSE /\ \E n \in 0..MaxFiles : \E results \in [1..n -> BOOLEAN] :
                 \E found \in BOOLEAN :
                    /\ download_results' = results
                    /\ current_metadata' =
                          update_download_complete(
                              DownloadLoop(update_download_start(current_metadata),
                                           results, found, 1))
              /\ taskPc' = "complete"
              /\ UNCHANGED exc_message
    /\ UNCHANGED <<started, ir_file, report_file, driver, sessions, records>>
    /\ UNCHANGED <<orchVars, gateVars, crawlVars, classifyVars, periodVars, sinkVars>>

\* Lines 235-238: complete_company_processing(success=True) sets the status
\* and writes the record, and the call returns; or open() raises and control
\* goes to the except clause.  The scraper is left as it is.
TaskComplete ==
    /\ taskPc = "complete"
    /\ current_metadata' = [current_metadata EXCEPT !.status = "completed",
                                                    !.error_message = "none"]
    /\ \/ /\ records' = Append(records, Written(current_metadata'))
          /\ taskPc' = "returned"
          /\ UNCHANGED exc_message
       \/ /\ taskPc' = "handler"
          /\ exc_message' = "text"
          /\ UNCHANGED records
    /\ UNCHANGED <<started, ir_file, report_file, download_results, driver, sessions>>
    /\ UNCHANGED <<orchVars, gateVars, crawlVars, classifyVars, periodVars, sinkVars>>

\* Mutant of TaskHandler: the except clause closes the scraper.
TaskHandler_closing ==
    /\ taskPc = "handler"
    /\ current_metadata' = [current_metadata EXCEPT !.status = "failed",
                                                    !.error_message = exc_message]
    /\ records' = Append(records, Written(current_metadata'))
    /\ taskPc' = "returned"
    /\ sessions' = IF driver = "session"
                     THEN [sessions EXCEPT ![Len(sessions)] = "quit"]
                     ELSE sessions
    /\ UNCHANGED <<started, exc_message, ir_file, report_file, download_results,
                   driver>>
    /\ UNCHANGED <<orchVars, gateVars, crawlVars, classifyVars, periodVars, sinkVars>>

\* Lines 240-243: complete_company_processing(success=False,
\* error_message=str(e)) sets the status and writes the record, and the call
\* returns; or open() raises and the exception leaves process_company.  The
\* scraper is left as it is.
TaskHandler ==
    /\ taskPc = "handler"
    /\ current_metadata' = [current_metadata EXCEPT !.status = "failed",
                                                    !.error_message = exc_message]
    /\ \/ /\ records' = Append(records, Written(current_metadata'))
          /\ taskPc' = "returned"
       \/ /\ taskPc' = "escaped"
          /\ UNCHANGED records
    /\ UNCHANGED <<started, exc_message, ir_file, report_file, download_results,
                   driver, sessions>>
    /\ UNCHANGED <<orchVars, gateVars, crawlVars, classifyVars, periodVars, sinkVars>>

TaskNext ==
    \/ TaskBegin
    \/ TaskScrape
    \/ TaskSaveLinks
    \/ TaskReadLinks
    \/ TaskExtract
    \/ TaskDownload
    \/ TaskComplete
    \/ TaskHandler

SpecTask == TaskInit /\ [][TaskNext]_vars

\* C37: a company whose crawl and extraction stages succeeded is recorded as
\* completed whatever its downloads returned, also when each of them failed:
\* a record with the extraction end stamped says completed, and a call that
\* ended after its extraction completed has written such a record; the
\* downloaded_files of a record list only URLs whose download succeeded.
C37_CompletedWhateverDownloads ==
    /\ \A i \in DOMAIN records :
          "extraction_end_time" \in records[i].stamps =>
              records[i].status = "completed"
    /\ (taskPc \in {"returned", "escaped"}
           /\ "extraction_end_time" \in current_metadata.stamps)
          => \E i \in DOMAIN records :
                records[i].run = started /\ records[i].status = "completed"
    /\ \A i \in DOMAIN current_metadata.downloaded_files :
          /\ current_metadata.downloaded_files[i] \in DOMAIN download_results
          /\ download_results[current_metadata.downloaded_files[i]]

\* C38: in every record process_company writes, the stage times that are set
\* are the first n of scraping start, scraping end, extraction start,
\* extraction end, download start, download end, for some n; in a record
\* with status completed all six are set.
C38_StageTimesPrefix ==
    \A i \in DOMAIN records :
        /\ \E n \in 0..Len(StageTimes) :
              records[i].stamps = {StageTimes[k] : k \in 1..n}
        /\ records[i].status = "completed" =>
              records[i].stamps = {StageTimes[k] : k \in DOMAIN StageTimes}

\* C38 witness: one call was recorded as failed with its extraction started
\* and not ended, the next as completed.
C38_Witness ==
    /\ Len(records) = 2
    /\ records[1].status = "failed"
    /\ records[1].stamps = {StageTimes[k] : k \in 1..3}
    /\ records[2].status = "completed"

\* C40 as stated: when a call of process_company has returned, the number of
\* open browser sessions is the number of companies processed so far.
C40_OneSessionPerCompany ==
    taskPc \in {"returned", "escaped"} =>
        Len(SelectSeq(sessions, LAMBDA b : b = "open")) = started

\* C40, amended: a company task never closes the browser session its scraper
\* opened: no session is ever quit, on the success path or on the failure
\* path, and the number of open sessions grows by one for each company whose
\* scraper could start its browser (by none for a company whose scraper
\* could not: the failure to start it is swallowed by setup_driver).
C40_SessionsNeverClosed ==
    [][/\ \A i \in DOMAIN sessions' : sessions'[i] = "open"
       /\ Len(sessions') >= Len(sessions)
       /\ taskPc = "scrape" =>
             Len(sessions') = Len(sessions) + (IF driver' = "session" THEN 1 ELSE 0)
       /\ taskPc' \in {"returned", "escaped"} => sessions' = sessions]_vars

\* C40 witness: two companies were processed, the first through its success
\* path and the second through its failure path, each with a browser, and
\* both sessions are open.
C40_Witness ==
    /\ started = 2
    /\ taskPc = "returned"
    /\ Len(records) = 2
    /\ records[1].status = "completed"
    /\ records[2].status = "failed"
    /\ driver = "session"
    /\ sessions = <<"open", "open">>

====
